---- MODULE Spec2Model ----
(***************************************************************************)
(* Feed-ingestion-and-delivery pipeline of Semantic-Machine:               *)
(*   rss-worker   Processor::run / Processor::process_url  (the poller)    *)
(*   api-server   RssFeedsProcessor::run                   (the consumer)  *)
(*   api-server   impl_store_bulk! / impl_read_bulk_by_ids! (the storage)  *)
(* The cache (Redis), the queue subject (NATS) and the table (Postgres)    *)
(* are modelled by the values they hold.                                   *)
(***************************************************************************)
EXTENDS Integers, Sequences, FiniteSets, TLC

(* ------------------------------------------------------------------ *)
(* Bounds of the model                                                  *)
(* ------------------------------------------------------------------ *)

\* Number of per-feed tasks the poller spawns before the model stops spawning.
MaxTasks == 2

\* Number of environment faults (I/O errors, redeliveries, foreign payloads).
MaxFaults == 2

\* Number of storage calls made through the storage API in SpecStore.
MaxCalls == 2

(* ------------------------------------------------------------------ *)
(* Configuration (RssConfig) and the environment's documents            *)
(* ------------------------------------------------------------------ *)

rss_urls == <<"u1", "u2">>

items_count == 2

RSS_QUEUE_NAME == "rss_items"

None == <<>>

Some(v) == <<v>>

unwrap_or_default(o) == IF o = None THEN "" ELSE o[1]

Date1 == "Mon, 01 Jan 2024 00:00:00 +0000"

Date2 == "Tue, 02 Jan 2024 00:00:00 +0000"

\* rss::Item as the feed parser returns it: every field is optional.
EntryA ==
    [title |-> Some("A"), author |-> Some("ann"), link |-> Some("http://a"),
     description |-> None, pub_date |-> Some(Date1), comments |-> None,
     categories |-> <<"x", "y">>]

EntryB ==
    [title |-> Some("B"), author |-> None, link |-> Some("http://b"),
     description |-> Some("about b"), pub_date |-> Some(Date2),
     comments |-> Some("http://b/c"), categories |-> <<>>]

EntryC ==
    [title |-> Some("C"), author |-> None, link |-> Some("http://c"),
     description |-> None, pub_date |-> Some(Date1), comments |-> None,
     categories |-> <<"z">>]

\* An entry without a publication date.
EntryNoDate ==
    [title |-> Some("N"), author |-> None, link |-> Some("http://n"),
     description |-> None, pub_date |-> None, comments |-> None,
     categories |-> <<>>]

\* The channel a feed URL serves when its fetch and parse succeed.
FeedChannel(url) ==
    IF url = "u1" THEN <<EntryNoDate, EntryA, EntryC>> ELSE <<EntryA, EntryB, EntryC>>

\* The text the article extractor returns for a link when it succeeds.
ArticleText(link) == "article of " \o link

(* ------------------------------------------------------------------ *)
(* shared-states: RssItem and its conversion from a feed entry          *)
(* ------------------------------------------------------------------ *)

Ok(v) == [ok |-> TRUE, val |-> v]

Err(e) == [ok |-> FALSE, val |-> e]

\* DateTime::parse_from_rfc2822 followed by timestamp_millis, in days since
\* 2024-01-01 for the dates of the model; any other text is a parse error.
parse_from_rfc2822(s) ==
    IF s = Date1 THEN Ok(0)
    ELSE IF s = Date2 THEN Ok(1)
    ELSE Err("ParseError")

\* Sha256 + hex::encode, idealised as injective on its input bytes: the digest
\* is identified by the bytes fed to the hasher.
Sha256Hex(bytes) == "sha256:" \o bytes

RECURSIVE JoinWith(_, _)
JoinWith(strs, sep) ==
    IF strs = <<>> THEN ""
    ELSE IF Len(strs) = 1 THEN strs[1]
    ELSE strs[1] \o sep \o JoinWith(Tail(strs), sep)

\* A digest that also reads the comments link.
FingerprintWithComments(entry) ==
    Sha256Hex(unwrap_or_default(entry.title) \o unwrap_or_default(entry.author)
              \o unwrap_or_default(entry.link)
              \o unwrap_or_default(entry.description)
              \o unwrap_or_default(entry.pub_date)
              \o unwrap_or_default(entry.comments))

\* A digest that leaves the description out.
FingerprintWithoutDescription(entry) ==
    Sha256Hex(unwrap_or_default(entry.title) \o unwrap_or_default(entry.author)
              \o unwrap_or_default(entry.link)
              \o unwrap_or_default(entry.pub_date))

\* The five hasher.update calls.
Fingerprint(entry) ==
    Sha256Hex(unwrap_or_default(entry.title) \o unwrap_or_default(entry.author)
              \o unwrap_or_default(entry.link)
              \o unwrap_or_default(entry.description)
              \o unwrap_or_default(entry.pub_date))

\* impl TryFrom<&Item> for RssItem; now is Utc::now() in poller ticks.
TryFromItem(entry, now) ==
    LET dt == parse_from_rfc2822(unwrap_or_default(entry.pub_date)) IN
    IF ~dt.ok THEN Err("ParseError")
    ELSE Ok([hash |-> Fingerprint(entry),
             title |-> unwrap_or_default(entry.title),
             link |-> unwrap_or_default(entry.link),
             description |-> unwrap_or_default(entry.description),
             published_timestamp |-> dt.val,
             fetched_timestamp |-> now,
             comments_url |-> unwrap_or_default(entry.comments),
             category |-> JoinWith(entry.categories, ", "),
             author |-> unwrap_or_default(entry.author),
             article |-> ""])

\* An extraction that makes the article part of the fingerprint.
extract_article_rehashing(item, r) ==
    IF r.ok THEN [item EXCEPT !.article = r.val, !.hash = item.hash \o r.val] ELSE item

\* RssItem::extract_article_from_source: `self.article = extract_article(..)?`.
extract_article_from_source(item, r) ==
    IF r.ok THEN [item EXCEPT !.article = r.val] ELSE item

NoItem == [hash |-> "none"]

NotCalled == [ok |-> FALSE, val |-> "not called"]

(* ------------------------------------------------------------------ *)
(* State                                                                *)
(* ------------------------------------------------------------------ *)

VARIABLES
    ticks,      \* number of passes of Processor::run's loop so far
    tasks,      \* the spawned process_url tasks, in spawn order
    cache,      \* Redis: key -> value for the keys present
    inflight,   \* payloads published to the subject and not yet delivered
    table,      \* Postgres table rss_items: its rows, in insertion order
    consumer,   \* RssFeedsProcessor::run: its position, message and result
    clog,       \* history: one entry per message the consumer has handled
    api,        \* history: the calls made through the storage traits directly
    faults      \* environment faults injected so far

vars == <<ticks, tasks, cache, inflight, table, consumer, clog, api, faults>>

store_vars == <<table, consumer, clog, api>>

worker_vars == <<ticks, tasks, cache>>

TaskIds == DOMAIN tasks

CanFault == faults < MaxFaults

Min(a, b) == IF a < b THEN a ELSE b

Range(s) == {s[i] : i \in DOMAIN s}

Init ==
    /\ ticks = 0
    /\ tasks = <<>>
    /\ cache = <<>>
    /\ inflight = <<>>
    /\ table = <<>>
    /\ consumer = [pc |-> "next", result |-> "running"]
    /\ clog = <<>>
    /\ api = <<>>
    /\ faults = 0

(* ------------------------------------------------------------------ *)
(* redis-middleware: RedisMiddleware over the key/value map             *)
(* ------------------------------------------------------------------ *)

\* SET key value
store(c, key, value) == (key :> value) @@ c

\* GET key
retrieve(c, key) == IF key \in DOMAIN c THEN Some(c[key]) ELSE None

\* A delete that empties the database (FLUSHDB).
delete_all(c, key) == <<>>

\* DEL key
delete(c, key) == [k \in (DOMAIN c) \ {key} |-> c[k]]

(* ------------------------------------------------------------------ *)
(* nats-middleware: payloads on the subject                             *)
(* ------------------------------------------------------------------ *)

\* serde_json::to_vec of an RssItem: the JSON object of its fields.
to_vec(item) == [json |-> "object", fields |-> item]

\* A payload on the subject that is not the JSON of an RssItem.
MalformedPayload == [json |-> "garbage", fields |-> NoItem]

\* serde_json::from_slice::<RssItem>
from_slice(payload) ==
    IF payload.json = "object" THEN Ok(payload.fields) ELSE Err("DeserializeError")

(* ------------------------------------------------------------------ *)
(* rss-worker: Processor::run and Processor::process_url                *)
(* ------------------------------------------------------------------ *)

\* The results an I/O call can give: its success value, or an error while the
\* fault budget lasts.
Results(okval, e) == {Ok(okval)} \cup (IF CanFault THEN {Err(e)} ELSE {})

Count(r) == IF r.ok THEN 0 ELSE 1

Entry(op, i, r, item) == [op |-> op, i |-> i, r |-> r, item |-> item]

NewTask(url, tick) ==
    [url |-> url, tick |-> tick, pc |-> "fetch", items |-> <<>>, idx |-> 0,
     item |-> NoItem, log |-> <<>>]

\* The urls one pass of the loop spawns a task for (all of them, until the
\* task bound max of the model is reached).
RECURSIVE SpawnUpTo(_, _, _, _)
SpawnUpTo(ts, urls, tick, max) ==
    IF urls = <<>> \/ Len(ts) >= max THEN ts
    ELSE SpawnUpTo(Append(ts, NewTask(Head(urls), tick)), Tail(urls), tick, max)

SpawnAll(ts, urls, tick) == SpawnUpTo(ts, urls, tick, MaxTasks)

\* A loop that joins the tasks of a pass before it starts the next pass.
tasks_joined(ts) == \A t \in DOMAIN ts : ts[t].pc \in {"done", "failed"}

\* What a pass of the loop waits for besides its timer: nothing, the
\* JoinHandle of each spawn is dropped.
tasks_awaited(ts) == TRUE

\* One pass of `loop { for url in rss_urls { spawn(..) } sleep(interval) }`:
\* the for loop has no suspension point, the tasks start once run sleeps.
Tick ==
    /\ Len(tasks) < MaxTasks
    /\ tasks_awaited(tasks)
    /\ ticks' = ticks + 1
    /\ tasks' = SpawnAll(tasks, rss_urls, ticks + 1)
    /\ UNCHANGED <<cache, inflight, faults, store_vars>>

\* A loop over every item of the channel.
take_unbounded(items) == Len(items)

\* `.take(items_count)`: the number of items the loop goes over.
take(items) == Min(Len(items), items_count)

\* A conversion error that ends the pass over the feed (`item.try_into()?`).
after_convert_return_on_error(r) == IF r.ok THEN "get" ELSE "failed"

\* `match item.try_into()`: Ok goes on to the cache get; Err is logged and
\* `continue`s with the next item.
after_convert(r) == IF r.ok THEN "get" ELSE "item"

\* `for item in channel.items().iter().take(items_count)` with item.try_into():
\* the loop head, run up to the next suspension point (the cache get of the
\* next item that converts) or to the end of the loop.
RECURSIVE next_item(_)
next_item(T) ==
    LET n == take(T.items)
        i == T.idx + 1
        conv == TryFromItem(T.items[i], T.tick)
        skipped == [T EXCEPT !.idx = i,
                             !.log = Append(@, Entry("convert", i, conv, NoItem))]
    IN  IF T.idx >= n THEN [T EXCEPT !.pc = "done"]
        ELSE IF after_convert(conv) = "get"
             THEN [T EXCEPT !.idx = i, !.item = conv.val, !.pc = "get"]
             ELSE IF after_convert(conv) = "item"
                  THEN next_item(skipped)
                  ELSE [skipped EXCEPT !.pc = after_convert(conv)]

\* A task that is at the loop head goes on to its next suspension point.
resume(T) == IF T.pc = "item" THEN next_item(T) ELSE T

\* The two early returns of process_url and the way into the item loop.
after_fetch(r) == IF r.ok THEN "item" ELSE "failed"

\* Client::new().get(url).send().await?.bytes().await, then Channel::read_from.
fetch(T, r) ==
    [T EXCEPT !.pc = after_fetch(r),
              !.items = IF r.ok THEN r.val ELSE <<>>,
              !.log = Append(@, Entry("fetch", 0, IF r.ok THEN Ok("feed") ELSE r, NoItem))]

\* An error that ends every unfinished task of the same pass (tasks joined
\* with the first error cancelling the rest).
abandon_whole_pass(ts, t, r) ==
    [u \in DOMAIN ts |->
        IF ts[u].tick = ts[t].tick /\ ts[u].pc # "done" THEN fetch(ts[u], r) ELSE ts[u]]

\* `spawn(async move { match Self::process_url(..).await { .. Err(e) => error!(..) } })`:
\* the error of one task is logged inside that task and reaches no other.
abandon(ts, t, r) == [ts EXCEPT ![t] = fetch(@, r)]

Fetch(t) ==
    /\ tasks[t].pc = "fetch"
    /\ \E r \in Results(FeedChannel(tasks[t].url), "FetchError")
                 \cup (IF CanFault THEN {Err("ParseError")} ELSE {}) :
        /\ faults' = faults + Count(r)
        /\ tasks' = IF r.ok THEN [tasks EXCEPT ![t] = resume(fetch(@, r))]
                    ELSE abandon(tasks, t, r)
    /\ UNCHANGED <<ticks, cache, inflight, store_vars>>

\* Fail-closed: a cache error counts as a present value.
cache_value_fail_closed(r) == IF r.ok THEN r.val ELSE Some("")

\* `match cache.retrieve(..) { Err(e) => None, Ok(value) => value }`
cache_value(r) == IF r.ok THEN r.val ELSE None

\* A check whose result is ignored: the item is processed in any case.
after_retrieve_no_skip(r) == "set"

\* A miss that goes to the extraction without the cache set.
after_retrieve_without_set(r) == IF cache_value(r) # None THEN "item" ELSE "extract"

\* `.is_some()` and the `continue`: the item was already processed.
after_retrieve(r) == IF cache_value(r) # None THEN "item" ELSE "set"

\* cache.retrieve(&rss_item.hash)
CacheGet(t) ==
    /\ tasks[t].pc = "get"
    /\ \E r \in Results(retrieve(cache, tasks[t].item.hash), "CacheError") :
        /\ faults' = faults + Count(r)
        /\ tasks' = [tasks EXCEPT ![t] =
                       resume([@ EXCEPT !.log = Append(@, Entry("get", tasks[t].idx, r, tasks[t].item)),
                                        !.pc = after_retrieve(r)])]
    /\ UNCHANGED <<ticks, cache, inflight, store_vars>>

\* What follows `if let Err(e) = cache.store(..)`: the error is only logged.
after_store(r) == "extract"

\* cache.store(&rss_item.hash, "")
CacheSet(t) ==
    /\ tasks[t].pc = "set"
    /\ \E r \in Results("OK", "CacheError") :
        /\ faults' = faults + Count(r)
        /\ cache' = IF r.ok THEN store(cache, tasks[t].item.hash, "") ELSE cache
        /\ tasks' = [tasks EXCEPT ![t] =
                       resume([@ EXCEPT !.log = Append(@, Entry("set", tasks[t].idx, r, tasks[t].item)),
                                        !.pc = after_store(r)])]
    /\ UNCHANGED <<ticks, inflight, store_vars>>

\* An extraction error that skips the item (`continue`).
after_extract_skip_on_error(r) == IF r.ok THEN "publish" ELSE "item"

\* What follows `if let Err(e) = rss_item.extract_article_from_source()`: the
\* error is only logged.
after_extract(r) == "publish"

\* rss_item.extract_article_from_source()
Extract(t) ==
    /\ tasks[t].pc = "extract"
    /\ \E r \in Results(ArticleText(tasks[t].item.link), "ExtractionFailed") :
        /\ faults' = faults + Count(r)
        /\ tasks' = [tasks EXCEPT ![t] =
                       resume([@ EXCEPT !.item = extract_article_from_source(@, r),
                                        !.log = Append(@, Entry("extract", tasks[t].idx, r, tasks[t].item)),
                                        !.pc = after_extract(r)])]
    /\ UNCHANGED <<ticks, cache, inflight, store_vars>>

\* A publish that is tried again when it fails.
after_publish_retry(r) == IF r.ok THEN "item" ELSE "publish"

\* What follows `match queue.publish(..)`: both arms only log, and the loop
\* goes on.
after_publish(r) == "item"

\* A publish whose message reaches the subject although it reports an error.
publish_despite_error(q, item, r) == Append(q, to_vec(item))

\* NatsQueue::publish: to_vec, then client.publish; an error delivers nothing.
publish(q, item, r) == IF r.ok THEN Append(q, to_vec(item)) ELSE q

\* A poller that takes the fingerprint out of the cache again when the
\* publish fails.
cache_forgetting_unpublished(c, item, r) == IF r.ok THEN c ELSE delete(c, item.hash)

\* The cache over the arms of `match queue.publish(..)`: neither arm calls
\* the cache client.
cache_after_publish(c, item, r) == c

\* queue.publish(RSS_QUEUE_NAME, &rss_item)
Publish(t) ==
    /\ tasks[t].pc = "publish"
    /\ \E r \in Results("OK", "PublishFailed") :
        /\ faults' = faults + Count(r)
        /\ inflight' = publish(inflight, tasks[t].item, r)
        /\ cache' = cache_after_publish(cache, tasks[t].item, r)
        /\ tasks' = [tasks EXCEPT ![t] =
                       resume([@ EXCEPT !.log = Append(@, Entry("publish", tasks[t].idx, r, tasks[t].item)),
                                        !.pc = after_publish(r)])]
    /\ UNCHANGED <<ticks, store_vars>>

TaskStep(t) ==
    \/ Fetch(t)
    \/ CacheGet(t)
    \/ CacheSet(t)
    \/ Extract(t)
    \/ Publish(t)

NextWorker ==
    \/ Tick
    \/ \E t \in TaskIds : TaskStep(t)

SpecWorker == Init /\ [][NextWorker]_vars

\* The runtime polls every spawned task that can run, and every I/O call
\* returns (a value or an error); the timer of the loop fires.
Step(t) == t \in TaskIds /\ TaskStep(t)

SpecWorkerFair ==
    /\ Init
    /\ [][NextWorker]_vars
    /\ WF_vars(Tick)
    /\ \A t \in 1..MaxTasks : WF_vars(Step(t))

\* Number of tasks in flight at which the model of the loop alone stops
\* spawning.
MaxInFlight == 3

\* A pass of the loop, with the task bound of the loop's own model.
PollerTick ==
    /\ Len(tasks) < MaxInFlight
    /\ tasks_awaited(tasks)
    /\ ticks' = ticks + 1
    /\ tasks' = SpawnUpTo(tasks, rss_urls, ticks + 1, MaxInFlight)
    /\ UNCHANGED <<cache, inflight, faults, store_vars>>

\* The loop of run with tasks that are slow: a task gets as far as its
\* first cache get and stays in flight from there on.
NextPoller ==
    \/ PollerTick
    \/ \E t \in TaskIds : Fetch(t)
    \/ \E t \in TaskIds : CacheGet(t)

SpecPoller == Init /\ [][NextPoller]_vars

(* ------------------------------------------------------------------ *)
(* api-server database.rs: the storage macros, as message_queue.rs      *)
(* instantiates them for RssItem                                        *)
(* ------------------------------------------------------------------ *)

\* The field list given to impl_store_bulk! and impl_read_bulk_by_ids!.
StoreFields ==
    <<"hash", "title", "link", "description", "published_timestamp",
      "fetched_timestamp", "comments_url", "category", "author", "article">>

\* A key column that is not the fingerprint.
KeyColumnWrong == "article"

\* The conflict field of impl_store_bulk! and the id field of
\* impl_read_bulk_by_ids!: the table's primary key column.
KeyColumn == "hash"

\* An update list that leaves the article column out.
update_assignments_without_article ==
    {f \in Range(StoreFields) : f # KeyColumn /\ f # "article"}

\* `if stringify!($field) != $conflict_field { update_assignments.push(..) }`
update_assignments == {f \in Range(StoreFields) : f # KeyColumn}

\* The values bound for one entity: `query_builder.bind(entity.$field.clone())`.
BoundRow(entity) == [f \in Range(StoreFields) |-> entity[f]]

\* ON CONFLICT (key) DO UPDATE SET f = EXCLUDED.f for every assigned field.
DoUpdate(old, new) ==
    [f \in Range(StoreFields) |-> IF f \in update_assignments THEN new[f] ELSE old[f]]

\* An insert that replaces the rows of the table by the new row.
UpsertRowTruncating(tbl, entity) == <<BoundRow(entity)>>

\* INSERT of one row with the ON CONFLICT clause.
UpsertRow(tbl, entity) ==
    LET new == BoundRow(entity) IN
    IF \E i \in DOMAIN tbl : tbl[i][KeyColumn] = new[KeyColumn]
    THEN [i \in DOMAIN tbl |->
            IF tbl[i][KeyColumn] = new[KeyColumn] THEN DoUpdate(tbl[i], new) ELSE tbl[i]]
    ELSE Append(tbl, new)

RECURSIVE UpsertAll(_, _)
UpsertAll(tbl, entities) ==
    IF entities = <<>> THEN tbl
    ELSE UpsertAll(UpsertRow(tbl, Head(entities)), Tail(entities))

DistinctKeys(entities) ==
    \A i, j \in DOMAIN entities :
        entities[i][KeyColumn] = entities[j][KeyColumn] => i = j

\* StoreInsertBulk::insert_bulk on a reachable database: the empty slice is an
\* error; the statement runs in one transaction; Postgres rejects a statement
\* whose ON CONFLICT DO UPDATE would affect one row twice.
insert_bulk(tbl, entities) ==
    IF entities = <<>> THEN Err("Found zero items to insert")
    ELSE IF ~DistinctKeys(entities) THEN Err("cannot affect row a second time")
    ELSE Ok([table |-> UpsertAll(tbl, entities),
             ids |-> [i \in DOMAIN entities |-> entities[i][KeyColumn]]])

\* A read that answers the empty slice with no rows.
read_bulk_by_ids_empty_ok(tbl, ids) ==
    Ok(SelectSeq(tbl, LAMBDA row : row[KeyColumn] \in Range(ids)))

\* A read that fails when one of the ids has no row.
read_bulk_by_ids_unknown_is_error(tbl, ids) ==
    IF ids = <<>> THEN Err("Found zero identifiers to read")
    ELSE IF \E i \in DOMAIN ids : \A r \in DOMAIN tbl : tbl[r][KeyColumn] # ids[i]
    THEN Err("RowNotFound")
    ELSE Ok(SelectSeq(tbl, LAMBDA row : row[KeyColumn] \in Range(ids)))

\* StoreReadBulkEntities::read_bulk_by_ids: SELECT .. WHERE key IN (ids).
read_bulk_by_ids(tbl, ids) ==
    IF ids = <<>> THEN Err("Found zero identifiers to read")
    ELSE Ok(SelectSeq(tbl, LAMBDA row : row[KeyColumn] \in Range(ids)))

(* ------------------------------------------------------------------ *)
(* api-server message_queue.rs: RssFeedsProcessor::run                  *)
(* ------------------------------------------------------------------ *)

\* `serde_json::from_slice(&message.payload)?`
after_deserialize(d) == IF d.ok THEN "read" ELSE "returned"

\* A consumer that upserts whether or not a row was found.
after_read_always_insert(r) == IF r.ok THEN "insert" ELSE "next"

\* `match self.storage.read_bulk_by_ids(&[hash])`: both `continue`s, or on to
\* the insert.
after_read(r) == IF r.ok /\ r.val = <<>> THEN "insert" ELSE "next"

\* An insert error that ends the loop (`?` on insert_bulk).
after_insert_return_on_error(r) == IF r.ok THEN "next" ELSE "returned"

\* `match self.storage.insert_bulk(&[rss_item])`: Ok logs, Err logs and
\* `continue`s; either way the loop takes the next message.
after_insert(r) == "next"

\* One pass of the body of `while let Some(message) = channel.next().await`
\* for payload p, with rd and ins the storage faults of this pass: the
\* consumer's position after it, the table, and the pass's history entry.
handle_message(tbl, p, rd, ins) ==
    LET d == from_slice(p)
        hash == d.val.hash
        read == IF rd.ok THEN read_bulk_by_ids(tbl, <<hash>>) ELSE rd
        call == insert_bulk(tbl, <<d.val>>)
        insert == IF ins.ok \/ ~call.ok THEN call ELSE ins
    IN  IF after_deserialize(d) # "read"
        THEN [pc |-> after_deserialize(d), table |-> tbl,
              entry |-> [d |-> d, read |-> NotCalled, insert |-> NotCalled]]
        ELSE IF after_read(read) # "insert"
        THEN [pc |-> after_read(read), table |-> tbl,
              entry |-> [d |-> d, read |-> read, insert |-> NotCalled]]
        ELSE [pc |-> after_insert(insert),
              table |-> IF insert.ok THEN insert.val.table ELSE tbl,
              entry |-> [d |-> d, read |-> read,
                         insert |-> IF insert.ok THEN Ok(insert.val.ids) ELSE insert]]

\* The storage faults a pass can meet within the fault budget.
DbFaults ==
    {<<Ok("up"), Ok("up")>>}
    \cup (IF CanFault
          THEN {<<Err("DatabaseError"), Ok("up")>>, <<Ok("up"), Err("DatabaseError")>>}
          ELSE {})

\* A fault counts when the pass reached the call it hits.
FaultsMet(h, f) ==
    IF (~f[1].ok /\ h.entry.read = f[1]) \/ (~f[2].ok /\ h.entry.insert = f[2])
    THEN 1 ELSE 0

\* `channel.next().await` yields a message and the loop body handles it. The
\* transport may deliver the message again later (at-least-once).
Deliver ==
    /\ consumer.pc = "next"
    /\ inflight # <<>>
    /\ \E f \in DbFaults :
        LET h == handle_message(table, Head(inflight), f[1], f[2]) IN
        /\ (f # <<Ok("up"), Ok("up")>> => FaultsMet(h, f) = 1)
        /\ consumer' = [pc |-> h.pc,
                        result |-> IF h.pc = "returned" THEN h.entry.d.val ELSE "running"]
        /\ table' = h.table
        /\ clog' = Append(clog, h.entry)
        /\ \E again \in {FALSE} \cup (IF faults + FaultsMet(h, f) < MaxFaults
                                       THEN {TRUE} ELSE {}) :
            /\ inflight' = IF again THEN Append(Tail(inflight), Head(inflight))
                           ELSE Tail(inflight)
            /\ faults' = faults + FaultsMet(h, f) + (IF again THEN 1 ELSE 0)
    /\ UNCHANGED <<worker_vars, api>>

\* A run that reports a clean end when the stream ends.
stream_ended_ok == "Ok(())"

\* The value run returns after the `while let` loop:
\* `Err(anyhow!("Message queue subscriber is broken for subject ( .. )"))`.
stream_ended == "Message queue subscriber is broken"

\* `channel.next().await` yields None: the loop ends and run returns Err.
StreamClose ==
    /\ consumer.pc = "next"
    /\ CanFault
    /\ faults' = faults + 1
    /\ consumer' = [consumer EXCEPT !.pc = "returned",
                                    !.result = stream_ended]
    /\ UNCHANGED <<worker_vars, inflight, table, clog, api>>

\* Another publisher puts a payload on the subject that is no RssItem.
ForeignPublish ==
    /\ CanFault
    /\ faults' = faults + 1
    /\ inflight' = Append(inflight, MalformedPayload)
    /\ UNCHANGED <<worker_vars, table, consumer, clog, api>>

NextConsumer ==
    \/ Deliver
    \/ StreamClose
    \/ ForeignPublish

Next ==
    \/ NextWorker
    \/ NextConsumer

Spec == Init /\ [][Next]_vars

\* The poller and the consumer under fair scheduling: the runtime polls
\* every spawned task that can run, every I/O call returns (a value or an
\* error), and the stream yields a message that is on the subject while the
\* consumer waits for one.
SpecFair ==
    /\ Init
    /\ [][Next]_vars
    /\ \A t \in 1..MaxTasks : WF_vars(Step(t))
    /\ WF_vars(Deliver)

(* ------------------------------------------------------------------ *)
(* The storage traits called directly (StoreInsertBulk,                 *)
(* StoreReadBulkEntities), on inputs drawn from small sets              *)
(* ------------------------------------------------------------------ *)

ItemA == TryFromItem(EntryA, 1).val

ItemB == TryFromItem(EntryB, 1).val

\* Entities a caller passes: two with one hash and different articles, and
\* one with another hash.
ApiItems == {ItemA, [ItemA EXCEPT !.article = ArticleText(ItemA.link)], ItemB}

ApiIds == {ItemA.hash, ItemB.hash, "sha256:unknown"}

SeqsUpTo2(S) == {<<>>} \cup {<<a>> : a \in S} \cup {<<a, b>> : a, b \in S}

\* What the database can answer to a statement: its result, or an error
\* while the fault budget lasts.
DbResults(res) == {res} \cup (IF CanFault /\ res.ok THEN {Err("DatabaseError")} ELSE {})

\* An insert that runs row by row outside a transaction: when it fails, the
\* first row of the batch has been written.
table_after_partial_insert(tbl, entities) ==
    IF entities = <<>> THEN tbl ELSE UpsertRow(tbl, Head(entities))

\* The table after insert_bulk returned an error: the one INSERT statement
\* ran inside `tx`, and `?` dropped `tx` before `tx.commit()`, which rolls
\* the transaction back.
table_after_error(tbl, entities) == tbl

ApiInsertBulk ==
    /\ Len(api) < MaxCalls
    /\ \E batch \in SeqsUpTo2(ApiItems) :
       \E r \in DbResults(insert_bulk(table, batch)) :
        /\ faults' = faults + (IF r = insert_bulk(table, batch) THEN 0 ELSE 1)
        /\ table' = IF r.ok THEN r.val.table ELSE table_after_error(table, batch)
        /\ api' = Append(api, [op |-> "insert_bulk", arg |-> batch, before |-> table,
                               res |-> IF r.ok THEN Ok(r.val.ids) ELSE r])
    /\ UNCHANGED <<worker_vars, inflight, consumer, clog>>

ApiReadBulkByIds ==
    /\ Len(api) < MaxCalls
    /\ \E ids \in SeqsUpTo2(ApiIds) :
       \E r \in DbResults(read_bulk_by_ids(table, ids)) :
        /\ faults' = faults + (IF r = read_bulk_by_ids(table, ids) THEN 0 ELSE 1)
        /\ api' = Append(api, [op |-> "read_bulk_by_ids", arg |-> ids, before |-> table,
                               res |-> r])
    /\ UNCHANGED <<worker_vars, inflight, table, consumer, clog>>

NextStore ==
    \/ ApiInsertBulk
    \/ ApiReadBulkByIds

SpecStore == Init /\ [][NextStore]_vars

(* ------------------------------------------------------------------ *)
(* shared-states called directly: the conversion of a feed entry and    *)
(* the article extraction, on entries drawn from a small set            *)
(* ------------------------------------------------------------------ *)

\* The five source fields of a feed entry, a missing one as the empty string.
FiveTuple(entry) ==
    <<unwrap_or_default(entry.title), unwrap_or_default(entry.author),
      unwrap_or_default(entry.link), unwrap_or_default(entry.description),
      unwrap_or_default(entry.pub_date)>>

\* The number of the five source fields on which two entries differ.
NumDiffer(e1, e2) ==
    Cardinality({i \in 1..5 : FiveTuple(e1)[i] # FiveTuple(e2)[i]})

\* Feed entries a caller passes: EntryA and the entries that differ from it
\* in one or two of title, author, link, description and publication date,
\* each with two choices of the fields the fingerprint does not read.
ApiEntries ==
    {e \in {[title |-> t, author |-> a, link |-> l, description |-> d,
             pub_date |-> p, comments |-> x.comments, categories |-> x.categories] :
                t \in {Some("A"), Some("Aa")},
                a \in {Some("ann"), Some("nn")},
                l \in {Some("http://a"), None},
                d \in {None, Some("d")},
                p \in {Some(Date1), Some(Date2)},
                x \in {[comments |-> None, categories |-> <<"x", "y">>],
                       [comments |-> Some("http://a/c"), categories |-> <<>>]}} :
        NumDiffer(e, EntryA) <= 2}

\* RssItem::try_from(&item); Utc::now() advances from one call to the next.
\* The history entry holds the item built, as it is now.
ApiTryFrom ==
    /\ Len(api) < MaxCalls
    /\ \E entry \in ApiEntries :
        api' = Append(api, [op |-> "try_from", arg |-> entry, before |-> table,
                            res |-> TryFromItem(entry, Len(api) + 1),
                            extract |-> NotCalled])
    /\ UNCHANGED <<worker_vars, inflight, table, consumer, clog, faults>>

\* rss_item.extract_article_from_source() on the item built last (&mut self).
ApiExtract ==
    /\ api # <<>>
    /\ api[Len(api)].op = "try_from"
    /\ api[Len(api)].res.ok
    /\ api[Len(api)].extract = NotCalled
    /\ LET item == api[Len(api)].res.val IN
       \E r \in Results(ArticleText(item.link), "ExtractionFailed") :
        /\ faults' = faults + Count(r)
        /\ api' = [api EXCEPT ![Len(api)].res = Ok(extract_article_from_source(item, r)),
                              ![Len(api)].extract = r]
    /\ UNCHANGED <<worker_vars, inflight, table, consumer, clog>>

NextItem ==
    \/ ApiTryFrom
    \/ ApiExtract

SpecItem == Init /\ [][NextItem]_vars

(* ------------------------------------------------------------------ *)
(* api-server database.rs: impl_read_bulk_multiple!, as models.rs       *)
(* instantiates it for SolanaUser on the table users                    *)
(* ------------------------------------------------------------------ *)

\* The strings of a field map are sequences of tokens: " " is a run of
\* whitespace, any other token a run of other characters.
RECURSIVE trim_start(_)
trim_start(str) ==
    IF str # <<>> /\ Head(str) = " " THEN trim_start(Tail(str)) ELSE str

RECURSIVE trim_end(_)
trim_end(str) ==
    IF str # <<>> /\ str[Len(str)] = " "
    THEN trim_end(SubSeq(str, 1, Len(str) - 1))
    ELSE str

\* str::trim
trim(str) == trim_end(trim_start(str))

\* str::is_empty
is_empty(str) == str = <<>>

\* The field list given to impl_read_bulk_multiple!.
UserFields == {"user_id", "solana_wallet_public_key", "created_at"}

\* The columns a text parameter can be compared with: SolanaUser binds
\* solana_wallet_public_key as [u8; 32] and created_at as i64, and `=`
\* between such a column and a parameter of type text is rejected.
TextColumns == {"user_id"}

UserA == [user_id |-> <<"u1">>, solana_wallet_public_key |-> "keyA", created_at |-> 1]

UserB == [user_id |-> <<"u2">>, solana_wallet_public_key |-> "keyB", created_at |-> 2]

\* Contents of the table users: rows with distinct wallet keys (the conflict
\* key of the table's impl_store_bulk!) and distinct ids.
UsersTables == {<<>>, <<UserA>>, <<UserB, UserA>>}

\* A filter that tests the strings as given, without trimming.
is_valid_untrimmed(k, v) == ~is_empty(k) /\ ~is_empty(v)

\* `.filter(|(k, v)| !k.trim().is_empty() && !v.trim().is_empty())`
is_valid(k, v) == ~is_empty(trim(k)) /\ ~is_empty(trim(v))

\* valid_fields: the entries of the map that pass the filter.
valid_fields(field_map) == {k \in DOMAIN field_map : is_valid(k, field_map[k])}

\* The name `{field_name} = $i` denotes in the statement: the key is
\* written into the text as given, and white space around it means nothing.
ColumnOf(k) == IF Len(trim(k)) = 1 THEN trim(k)[1] ELSE "?"

\* A WHERE clause that joins the filters with OR.
row_passes_any(row, field_map, ks) ==
    \E k \in ks : row[ColumnOf(k)] = field_map[k]

\* `filters.join(" AND ")` with the values bound as given (`args.add(value)`).
row_passes(row, field_map, ks) ==
    \A k \in ks : row[ColumnOf(k)] = field_map[k]

\* The sequences of m distinct elements of S.
Arrangements(S, m) ==
    {q \in [1..m -> S] : \A i, j \in 1..m : q[i] = q[j] => i = j}

\* The number of rows `LIMIT limit OFFSET offset` leaves of n rows.
page_size(n, limit, offset) ==
    Min(limit, IF n > offset THEN n - offset ELSE 0)

\* What Postgres can answer to the SELECT: an error for a name that is no
\* column, for a column it cannot compare with text, and for a negative
\* LIMIT or OFFSET; otherwise a page of the rows that pass the filters, in
\* an order the statement does not fix (it has no ORDER BY).
fetch_all(tbl, field_map, ks, limit, offset) ==
    LET passing == {r \in Range(tbl) : row_passes(r, field_map, ks)} IN
    IF \E k \in ks : ColumnOf(k) \notin UserFields
    THEN {Err("column does not exist")}
    ELSE IF \E k \in ks : ColumnOf(k) \notin TextColumns
    THEN {Err("operator does not exist")}
    ELSE IF limit < 0 \/ offset < 0
    THEN {Err("LIMIT and OFFSET must not be negative")}
    ELSE {Ok(q) : q \in Arrangements(passing,
                                     page_size(Cardinality(passing), limit, offset))}

\* StorePaginateBulkEntities::filter_paginate: the results the call can
\* give, each with the filters of the statement it sent (None: no statement).
filter_paginate(tbl, field_map, limit, offset) ==
    IF valid_fields(field_map) = {}
    THEN {[sent |-> None, res |-> Err("No valid filters found")]}
    ELSE {[sent |-> Some(valid_fields(field_map)), res |-> r] :
            r \in fetch_all(tbl, field_map, valid_fields(field_map), limit, offset)
                   \cup (IF CanFault THEN {Err("DatabaseError")} ELSE {})}

\* Keys and values a caller passes: names of columns, bare and padded, a name
\* that is no column, and blank and empty strings.
FilterKeys ==
    {<<"user_id">>, <<" ", "user_id", " ">>, <<"created_at">>, <<"k">>, <<" ">>, <<>>}

FilterValues == {<<"u1">>, <<"u2">>, <<" ", "u1">>, <<" ", " ">>, <<>>}

\* The maps of at most three entries over these keys and values.
FieldMaps ==
    UNION {[S -> FilterValues] : S \in {T \in SUBSET FilterKeys : Cardinality(T) <= 3}}

Limits == {-1, 0, 1, 2}

Offsets == {-1, 0, 1}

\* A call of storage.filter_paginate(&field_map, limit, offset) is about to
\* be made on one of the tables.
InitFilter ==
    /\ ticks = 0
    /\ tasks = <<>>
    /\ cache = <<>>
    /\ inflight = <<>>
    /\ table \in UsersTables
    /\ consumer = [pc |-> "next", result |-> "running"]
    /\ clog = <<>>
    /\ \E field_map \in FieldMaps, limit \in Limits, offset \in Offsets :
          api = <<[op |-> "filter_paginate",
                   arg |-> [field_map |-> field_map, limit |-> limit, offset |-> offset],
                   before |-> table, sent |-> None, res |-> NotCalled]>>
    /\ faults = 0

\* The call runs and returns.
ApiFilterPaginate ==
    /\ api # <<>>
    /\ api[1].op = "filter_paginate"
    /\ api[1].res = NotCalled
    /\ \E a \in filter_paginate(table, api[1].arg.field_map, api[1].arg.limit,
                                 api[1].arg.offset) :
        /\ faults' = faults + (IF a.res = Err("DatabaseError") THEN 1 ELSE 0)
        /\ api' = [api EXCEPT ![1].sent = a.sent, ![1].res = a.res]
    /\ UNCHANGED <<worker_vars, inflight, table, consumer, clog>>

NextFilter == ApiFilterPaginate

SpecFilter == InitFilter /\ [][NextFilter]_vars

(* ------------------------------------------------------------------ *)
(* shared-states article.rs: extract_article and replace_tags           *)
(* ------------------------------------------------------------------ *)

\* The texts of a page are sequences of characters. A page is the sequence
\* of its nodes in document order; a node names its parent by position (0 is
\* the body), an element has a tag and a class, a text node has its text.
Element(tag, class, parent) ==
    [tag |-> tag, class |-> class, parent |-> parent, text |-> <<>>]

TextNode(text, parent) ==
    [tag |-> "#text", class |-> "", parent |-> parent, text |-> text]

RECURSIVE IsInside(_, _, _)
\* Node j of the page lies inside node i.
IsInside(doc, j, i) ==
    /\ doc[j].parent # 0
    /\ (doc[j].parent = i \/ IsInside(doc, doc[j].parent, i))

\* document.select(selector): the positions of the matching elements, in
\* document order.
select(doc, tag, class) ==
    SelectSeq([i \in DOMAIN doc |-> i],
              LAMBDA i : doc[i].tag = tag /\ (class = "" \/ doc[i].class = class))

\* element.text(): the texts of the text nodes inside the element, in
\* document order.
text(doc, i) ==
    LET inside == SelectSeq([j \in DOMAIN doc |-> j],
                            LAMBDA j : doc[j].tag = "#text" /\ IsInside(doc, j, i))
    IN  [k \in DOMAIN inside |-> doc[inside[k]].text]

RECURSIVE join(_, _)
\* Vec<&str>::join(sep)
join(strs, sep) ==
    IF strs = <<>> THEN <<>>
    ELSE IF Len(strs) = 1 THEN strs[1]
    ELSE strs[1] \o sep \o join(Tail(strs), sep)

\* char::is_whitespace, for the characters of the model's pages.
is_whitespace(c) == c = " "

RECURSIVE str_trim_start(_)
str_trim_start(str) ==
    IF str # <<>> /\ is_whitespace(Head(str)) THEN str_trim_start(Tail(str)) ELSE str

RECURSIVE str_trim_end(_)
str_trim_end(str) ==
    IF str # <<>> /\ is_whitespace(str[Len(str)])
    THEN str_trim_end(SubSeq(str, 1, Len(str) - 1))
    ELSE str

\* str::trim on a sequence of characters.
str_trim(str) == str_trim_end(str_trim_start(str))

\* The position of the first `>` of str after position i, or 0.
FirstClose(str, i) ==
    LET closes == {j \in DOMAIN str : j > i /\ str[j] = ">"} IN
    IF closes = {} THEN 0 ELSE CHOOSE j \in closes : \A k \in closes : j <= k

RECURSIVE remove_tags(_)
\* re_tags.replace_all(content, "") for `</?[^>]+>`: a match starts at a `<`
\* and ends at the next `>`, with at least one character between them.
remove_tags(str) ==
    IF str = <<>> THEN <<>>
    ELSE IF Head(str) = "<" /\ FirstClose(str, 1) >= 3
    THEN remove_tags(SubSeq(str, FirstClose(str, 1) + 1, Len(str)))
    ELSE <<Head(str)>> \o remove_tags(Tail(str))

\* cleaned.replace("|", "")
remove_pipes(str) == SelectSeq(str, LAMBDA c : c # "|")

RECURSIVE split_whitespace(_)
\* str::split_whitespace: the maximal runs of characters that are no white
\* space.
split_whitespace(str) ==
    LET s0 == str_trim_start(str)
        ends == {j \in DOMAIN s0 : is_whitespace(s0[j])}
        n == IF ends = {} THEN Len(s0)
             ELSE (CHOOSE j \in ends : \A k \in ends : j <= k) - 1
    IN  IF s0 = <<>> THEN <<>>
        ELSE <<SubSeq(s0, 1, n)>> \o split_whitespace(SubSeq(s0, n + 1, Len(s0)))

\* replace_tags on text that is valid UTF-8 after the tags are removed.
replace_tags(content) ==
    join(split_whitespace(remove_pipes(remove_tags(content))), <<" ">>)

\* An extractor that looks for `div.post-content` before `article`.
strategy_post_content_first(doc) ==
    IF select(doc, "div", "post-content") # <<>> THEN "div.post-content"
    ELSE IF select(doc, "article", "") # <<>> THEN "article"
    ELSE "div"

\* The branch of extract_article a page takes: the two `if let .. &&
\* let Some(element) = document.select(..).next()` in their order, then the
\* scan of the divs.
strategy(doc) ==
    IF select(doc, "article", "") # <<>> THEN "article"
    ELSE IF select(doc, "div", "post-content") # <<>> THEN "div.post-content"
    ELSE "div"

\* A scan that also takes a div of the same length as the best so far.
is_longer_or_equal(len, max_len) == len >= max_len

\* `if len > max_len`
is_longer(len, max_len) == len > max_len

RECURSIVE best_div(_, _, _, _)
\* `for div in document.select(&div_selector)` with best_div and max_len.
best_div(doc, divs, best, max_len) ==
    IF divs = <<>> THEN best
    ELSE LET content == join(text(doc, Head(divs)), <<>>)
             len == Len(str_trim(content))
         IN  IF is_longer(len, max_len)
             THEN best_div(doc, Tail(divs), Some(content), len)
             ELSE best_div(doc, Tail(divs), best, max_len)

\* extract_article on the parsed body: the text it returns and the return
\* statement that gave it.
extract_article(doc) ==
    LET via == strategy(doc)
        best == best_div(doc, select(doc, "div", ""), None, 0)
    IN  IF via = "article"
        THEN [via |-> via,
              res |-> Ok(join(text(doc, select(doc, "article", "")[1]), <<" ">>))]
        ELSE IF via = "div.post-content"
        THEN [via |-> via,
              res |-> Ok(join(text(doc, select(doc, "div", "post-content")[1]), <<" ">>))]
        ELSE [via |-> via,
              res |-> IF best = None THEN Err("No <div> found.")
                      ELSE Ok(replace_tags(best[1]))]

\* Texts of the pages: "Hi  W", " a|b", "cde ", "  " and "<b>wxyz".
PageTexts ==
    {<<"H", "i", " ", " ", "W">>, <<" ", "a", "|", "b">>, <<"c", "d", "e", " ">>,
     <<" ", " ">>, <<"<", "b", ">", "w", "x", "y", "z">>}

\* The elements of the pages: <article>, <div class="post-content">, <div>
\* and <p>, under the parent at the given position.
PageElements(parent) ==
    {Element("article", "", parent), Element("div", "post-content", parent),
     Element("div", "", parent), Element("p", "", parent)}

\* Pages of two elements with one text each, the second element beside or
\* inside the first, and at most one more text at the end of the first.
Pages ==
    LET two == {<<e1, TextNode(t1, 1), e2, TextNode(t2, 3)>> :
                    e1 \in PageElements(0), t1 \in PageTexts,
                    e2 \in PageElements(0) \cup PageElements(1), t2 \in PageTexts}
    IN  two \cup {Append(d, TextNode(t3, 1)) :
                    d \in two, t3 \in {<<" ", "a", "|", "b">>, <<"c", "d", "e", " ">>}}

\* A call of extract_article(url) is about to be made for a url that serves
\* one of the pages.
InitArticle ==
    /\ ticks = 0
    /\ tasks = <<>>
    /\ cache = <<>>
    /\ inflight = <<>>
    /\ table = <<>>
    /\ consumer = [pc |-> "next", result |-> "running"]
    /\ clog = <<>>
    /\ \E doc \in Pages :
          api = <<[op |-> "extract_article", arg |-> doc, before |-> <<>>,
                   via |-> "none", res |-> NotCalled]>>
    /\ faults = 0

\* reqwest::get(url) and resp.text() return the page or fail; the page is
\* parsed and the extractor runs.
ApiExtractArticle ==
    /\ api # <<>>
    /\ api[1].op = "extract_article"
    /\ api[1].res = NotCalled
    /\ \E r \in Results(api[1].arg, "FetchError") :
        /\ faults' = faults + Count(r)
        /\ api' = IF r.ok
                  THEN [api EXCEPT ![1].via = extract_article(r.val).via,
                                   ![1].res = extract_article(r.val).res]
                  ELSE [api EXCEPT ![1].via = "fetch", ![1].res = r]
    /\ UNCHANGED <<worker_vars, inflight, table, consumer, clog>>

NextArticle == ApiExtractArticle

SpecArticle == InitArticle /\ [][NextArticle]_vars

(* ------------------------------------------------------------------ *)
(* api-server message_queue.rs: RssFeedsProcessor::run, one await at a  *)
(* time: channel.next(), read_bulk_by_ids, insert_bulk                  *)
(* ------------------------------------------------------------------ *)

\* Messages put on the subject in one run.
MaxMessages == 3

\* The payloads that arrive on the subject: two items and one payload that
\* is no RssItem.
Payloads == {to_vec(ItemA), to_vec(ItemB), MalformedPayload}

\* A loop that takes the next message while the storage calls of the last
\* one are still pending (a handler spawned per message).
ready_while_handling(pc) == pc # "returned"

\* `while let Some(message) = channel.next().await`: the stream is polled
\* only from the head of the loop, which the body reaches by falling through
\* or by `continue`.
ready_for_next(pc) == pc = "next"

\* A publisher puts a payload on the subject, or the transport puts one
\* there again.
QueuePublish ==
    /\ Len(clog) + Len(inflight) < MaxMessages
    /\ \E p \in Payloads : inflight' = Append(inflight, p)
    /\ UNCHANGED <<worker_vars, table, consumer, clog, api, faults>>

\* `channel.next().await` yields a message, and
\* `serde_json::from_slice(&message.payload)?`
Receive ==
    /\ ready_for_next(consumer.pc)
    /\ inflight # <<>>
    /\ LET d == from_slice(Head(inflight)) IN
        /\ consumer' = [pc |-> after_deserialize(d),
                        result |-> IF after_deserialize(d) = "returned"
                                   THEN d.val ELSE "running"]
        /\ clog' = Append(clog, [d |-> d, read |-> NotCalled, insert |-> NotCalled])
    /\ inflight' = Tail(inflight)
    /\ UNCHANGED <<worker_vars, table, api, faults>>

\* `self.storage.read_bulk_by_ids(&[hash]).await` returns.
ReadBulk ==
    /\ consumer.pc = "read"
    /\ LET e == clog[Len(clog)] IN
       \E r \in DbResults(read_bulk_by_ids(table, <<e.d.val.hash>>)) :
        /\ faults' = faults + (IF r.ok THEN 0 ELSE 1)
        /\ consumer' = [consumer EXCEPT !.pc = after_read(r)]
        /\ clog' = [clog EXCEPT ![Len(clog)].read = r]
    /\ UNCHANGED <<worker_vars, inflight, table, api>>

\* `self.storage.insert_bulk(&[rss_item]).await` returns.
InsertBulk ==
    /\ consumer.pc = "insert"
    /\ LET e == clog[Len(clog)] IN
       \E r \in DbResults(insert_bulk(table, <<e.d.val>>)) :
        /\ faults' = faults + (IF r.ok THEN 0 ELSE 1)
        /\ table' = IF r.ok THEN r.val.table ELSE table
        /\ consumer' = [consumer EXCEPT !.pc = after_insert(r)]
        /\ clog' = [clog EXCEPT ![Len(clog)].insert = IF r.ok THEN Ok(r.val.ids) ELSE r]
    /\ UNCHANGED <<worker_vars, inflight, api>>

NextAwaits ==
    \/ QueuePublish
    \/ Receive
    \/ ReadBulk
    \/ InsertBulk

SpecAwaits == Init /\ [][NextAwaits]_vars

(* ------------------------------------------------------------------ *)
(* redis-middleware called directly: store, retrieve and delete on keys *)
(* and values drawn from small sets                                     *)
(* ------------------------------------------------------------------ *)

\* Calls made through the cache client in one run.
MaxCacheCalls == 4

CacheKeys == {"k1", "k2"}

\* The empty string is the value the poller stores.
CacheValues == {"", "v"}

\* RedisMiddleware::store; a call that returns an error (no connection) leaves
\* the keys alone.
ApiCacheStore ==
    /\ Len(api) < MaxCacheCalls
    /\ \E k \in CacheKeys : \E v \in CacheValues : \E r \in Results("OK", "CacheError") :
        /\ faults' = faults + (IF r.ok THEN 0 ELSE 1)
        /\ cache' = IF r.ok THEN store(cache, k, v) ELSE cache
        /\ api' = Append(api, [op |-> "store", key |-> k, value |-> v, res |-> r])
    /\ UNCHANGED <<ticks, tasks, inflight, table, consumer, clog>>

\* RedisMiddleware::retrieve
ApiCacheRetrieve ==
    /\ Len(api) < MaxCacheCalls
    /\ \E k \in CacheKeys : \E r \in Results(retrieve(cache, k), "CacheError") :
        /\ faults' = faults + (IF r.ok THEN 0 ELSE 1)
        /\ api' = Append(api, [op |-> "retrieve", key |-> k, value |-> "", res |-> r])
    /\ UNCHANGED <<worker_vars, inflight, table, consumer, clog>>

\* RedisMiddleware::delete
ApiCacheDelete ==
    /\ Len(api) < MaxCacheCalls
    /\ \E k \in CacheKeys : \E r \in Results("OK", "CacheError") :
        /\ faults' = faults + (IF r.ok THEN 0 ELSE 1)
        /\ cache' = IF r.ok THEN delete(cache, k) ELSE cache
        /\ api' = Append(api, [op |-> "delete", key |-> k, value |-> "", res |-> r])
    /\ UNCHANGED <<ticks, tasks, inflight, table, consumer, clog>>

NextCache ==
    \/ ApiCacheStore
    \/ ApiCacheRetrieve
    \/ ApiCacheDelete

SpecCache == Init /\ [][NextCache]_vars

(* ------------------------------------------------------------------ *)
(* nats-middleware: WebhookEventMessage and its retry counter           *)
(* ------------------------------------------------------------------ *)

\* Calls made on one WebhookEventMessage in one run.
MaxWebhookCalls == 6

\* `retry_count: u32` and `max_retries: u32`: a 32-bit value as two 16-bit
\* halves, the high one first.
Limb == 65536

U32(hi, lo) == [hi |-> hi, lo |-> lo]

U32Max == U32(Limb - 1, Limb - 1)

\* a < b on u32
u32_lt(a, b) == a.hi < b.hi \/ (a.hi = b.hi /\ a.lo < b.lo)

\* a + 1 on u32 without overflow checks: the sum modulo 2^32.
wrapping_add_one(a) ==
    IF a.lo + 1 < Limb THEN U32(a.hi, a.lo + 1) ELSE U32((a.hi + 1) % Limb, 0)

\* WebhookEventMessage::new; event_id, data and timestamp are carried along
\* and left out.
webhook_new(event_type, source) ==
    [event_type |-> event_type, source |-> source,
     retry_count |-> U32(0, 0), max_retries |-> U32(0, 3)]

\* WebhookEventMessage::increment_retry where it returns:
\* `self.retry_count += 1`.
increment_retry(m) == [m EXCEPT !.retry_count = wrapping_add_one(@)]

\* A retry test that still holds when the counter has reached the maximum.
should_retry_inclusive(m) == ~u32_lt(m.max_retries, m.retry_count)

\* WebhookEventMessage::should_retry
should_retry(m) == u32_lt(m.retry_count, m.max_retries)

\* `+=` on u32 at the largest value panics in a build with overflow checks
\* (the default of the dev profile) and wraps in one without (the default of
\* the release profile).
Builds == {"overflow-checks", "wrapping"}

\* The messages serde builds from a payload: any values of the two counters.
WebhookPayloads ==
    {[event_type |-> "user.created", source |-> "api.example.com",
      retry_count |-> r, max_retries |-> x] :
        r \in {U32(0, 0), U32(0, 2), U32(0, 3), U32(0, Limb - 1),
               U32(Limb - 1, Limb - 2), U32Max},
        x \in {U32(0, 0), U32(0, 3), U32Max}}

\* The message the calls are made on.
Message == api[Len(api)].msg

Panicked == api # <<>> /\ api[Len(api)].res = Err("attempt to add with overflow")

ApiWebhookNew ==
    /\ api = <<>>
    /\ \E event_type \in {"user.created", "user.deleted"} :
        api' = <<[op |-> "new", msg |-> webhook_new(event_type, "api.example.com"),
                  res |-> Ok("message")]>>
    /\ UNCHANGED <<worker_vars, inflight, table, consumer, clog, faults>>

\* serde_json::from_slice::<WebhookEventMessage>
ApiWebhookFromSlice ==
    /\ api = <<>>
    /\ \E m \in WebhookPayloads :
        api' = <<[op |-> "from_slice", msg |-> m, res |-> Ok("message")]>>
    /\ UNCHANGED <<worker_vars, inflight, table, consumer, clog, faults>>

ApiIncrementRetry ==
    /\ api # <<>>
    /\ Len(api) < MaxWebhookCalls
    /\ ~Panicked
    /\ \E build \in Builds :
        api' = Append(api,
                IF build = "overflow-checks" /\ Message.retry_count = U32Max
                THEN [op |-> "increment_retry", msg |-> Message,
                      res |-> Err("attempt to add with overflow")]
                ELSE [op |-> "increment_retry", msg |-> increment_retry(Message),
                      res |-> Ok("()")])
    /\ UNCHANGED <<worker_vars, inflight, table, consumer, clog, faults>>

ApiShouldRetry ==
    /\ api # <<>>
    /\ Len(api) < MaxWebhookCalls
    /\ ~Panicked
    /\ api' = Append(api, [op |-> "should_retry", msg |-> Message,
                           res |-> Ok(should_retry(Message))])
    /\ UNCHANGED <<worker_vars, inflight, table, consumer, clog, faults>>

NextWebhook ==
    \/ ApiWebhookNew
    \/ ApiWebhookFromSlice
    \/ ApiIncrementRetry
    \/ ApiShouldRetry

SpecWebhook == Init /\ [][NextWebhook]_vars

(* ------------------------------------------------------------------ *)
(* Reading the histories                                                *)
(* ------------------------------------------------------------------ *)

Log(t) == tasks[t].log

TaskPc(t) == IF t \in TaskIds THEN tasks[t].pc ELSE "unspawned"

\* Task t's log holds an entry of operation op for the item at feed position i.
Did(t, op, i) == \E k \in DOMAIN Log(t) : Log(t)[k].op = op /\ Log(t)[k].i = i

NumDid(t, op, i) == Cardinality({k \in DOMAIN Log(t) : Log(t)[k].op = op /\ Log(t)[k].i = i})

\* Task t has left the loop body of the item at feed position i.
Past(t, i) == tasks[t].idx > i \/ tasks[t].pc = "done"

IsHit(e) == e.op = "get" /\ e.r.ok /\ e.r.val # None

Failed(e, op) == e.op = op /\ ~e.r.ok

\* The rows of the table with a given fingerprint.
RowsOf(tbl, hash) == SelectSeq(tbl, LAMBDA row : row.hash = hash)

\* The consumer handled entry e's message to the end with storage answering.
StorageAnswered(e) ==
    e.d.ok /\ e.read.ok /\ (e.insert.ok \/ e.insert = NotCalled)

\* The consumer's read or insert for entry e's message returned an error.
StorageFailed(e) ==
    \/ (e.read # NotCalled /\ ~e.read.ok)
    \/ (e.insert # NotCalled /\ ~e.insert.ok)

\* The calls of the history that converted an entry into an item.
Converted == {k \in DOMAIN api : api[k].op = "try_from" /\ api[k].res.ok}

\* The table as call k of the storage history left it.
After(k) == IF k = Len(api) THEN table ELSE api[k + 1].before

\* The number of publishes the queue client accepted, over all tasks.
NumPublished ==
    Cardinality(UNION {{<<t, k>> : k \in {j \in DOMAIN Log(t) :
                                            Log(t)[j].op = "publish" /\ Log(t)[j].r.ok}} :
                       t \in TaskIds})

(* ------------------------------------------------------------------ *)
(* Properties                                                           *)
(* ------------------------------------------------------------------ *)

\* C1: in every reachable state of the pipeline the table holds at most one
\* row per fingerprint.
C1_OneRowPerFingerprint ==
    \A i, j \in DOMAIN table : table[i].hash = table[j].hash => i = j

\* C1 case: one fingerprint was delivered twice with storage answering, and
\* it is stored.
C1_Witness ==
    \E j, k \in DOMAIN clog :
        /\ j < k
        /\ StorageAnswered(clog[j]) /\ StorageAnswered(clog[k])
        /\ clog[j].d.val.hash = clog[k].d.val.hash
        /\ Len(RowsOf(table, clog[k].d.val.hash)) = 1

\* C2: insert_bulk([item]) then insert_bulk([item']) with item'.hash =
\* item.hash leaves exactly one row for that hash, holding item''s values in
\* every column.
C2_SecondUpsertOverwrites ==
    Len(api) >= 2 =>
        LET a == api[Len(api) - 1]
            b == api[Len(api)]
        IN  (/\ a.op = "insert_bulk" /\ b.op = "insert_bulk"
             /\ a.res.ok /\ b.res.ok
             /\ Len(a.arg) = 1 /\ Len(b.arg) = 1
             /\ a.arg[1].hash = b.arg[1].hash)
            => RowsOf(table, b.arg[1].hash) = <<b.arg[1]>>

\* C2 case: the two calls were made, with different articles.
C2_Witness ==
    /\ Len(api) >= 2
    /\ LET a == api[Len(api) - 1]
           b == api[Len(api)]
       IN  /\ a.op = "insert_bulk" /\ b.op = "insert_bulk"
           /\ a.res.ok /\ b.res.ok
           /\ Len(a.arg) = 1 /\ Len(b.arg) = 1
           /\ a.arg[1].hash = b.arg[1].hash
           /\ a.arg[1].article # b.arg[1].article
           /\ RowsOf(table, b.arg[1].hash) = <<b.arg[1]>>

\* C3 as stated: once the consumer has handled a message whose fingerprint was
\* already stored (storage answering), the stored row holds the delivered
\* item's values.
C3_DeliveredItemOverwritesRow ==
    (consumer.pc = "next" /\ clog # <<>>) =>
        LET e == clog[Len(clog)] IN
        (e.d.ok /\ e.read.ok /\ e.read.val # <<>>)
            => RowsOf(table, e.d.val.hash) = <<e.d.val>>

\* C3 amended: for every delivered message that deserializes, the consumer
\* reads the table by the item's hash; it calls insert_bulk with that single
\* item only when the read succeeds and finds no row, and the row then holds
\* the item; when a row is found the message is skipped and the stored row
\* stays as it was found.
C3_InsertOnlyWhenAbsent ==
    \A k \in DOMAIN clog :
        LET e == clog[k] IN
        e.d.ok =>
            /\ e.read # NotCalled
            /\ (e.insert # NotCalled => e.read.ok /\ e.read.val = <<>>)
            /\ (e.read.ok /\ e.read.val = <<>> => e.insert # NotCalled)
            /\ (e.insert.ok =>
                    /\ e.insert.val = <<e.d.val.hash>>
                    /\ \E i \in DOMAIN table : table[i].hash = e.d.val.hash)
            /\ (e.read.ok /\ e.read.val # <<>> =>
                    /\ e.insert = NotCalled
                    /\ RowsOf(table, e.d.val.hash) = e.read.val)

\* C3 case: a delivered item found a stored row of its fingerprint that
\* differs from it.
C3_Witness ==
    \E k \in DOMAIN clog :
        /\ clog[k].d.ok /\ clog[k].read.ok
        /\ clog[k].read.val # <<>>
        /\ clog[k].read.val # <<clog[k].d.val>>
        /\ RowsOf(table, clog[k].d.val.hash) = clog[k].read.val

\* C4: once a message has been handled with storage answering, every further
\* delivery of the same message leaves the table as it is.
C4_RedeliveryIsNoOp ==
    [][(/\ Len(clog') = Len(clog) + 1
        /\ clog'[Len(clog')].d.ok
        /\ \E k \in DOMAIN clog :
              clog[k].d = clog'[Len(clog')].d /\ StorageAnswered(clog[k]))
       => table' = table]_vars

\* C4 case: the same message was handled twice, the first time stored.
C4_Witness ==
    \E j, k \in DOMAIN clog :
        /\ j < k
        /\ clog[j].d.ok /\ clog[j].d = clog[k].d
        /\ clog[j].insert.ok /\ StorageAnswered(clog[k])
        /\ RowsOf(table, clog[k].d.val.hash) = <<clog[j].d.val>>

\* C5: when the cache get of an item returns a present value, the task does
\* no cache set, no extraction and no publish for that item in that pass.
C5_HitSkipsItem ==
    \A t \in TaskIds : \A k \in DOMAIN Log(t) :
        IsHit(Log(t)[k]) =>
            /\ ~Did(t, "set", Log(t)[k].i)
            /\ ~Did(t, "extract", Log(t)[k].i)
            /\ ~Did(t, "publish", Log(t)[k].i)
            /\ (tasks[t].idx = Log(t)[k].i => tasks[t].pc = "done")

\* C5 case: a task met a hit and finished its pass.
C5_Witness ==
    \E t \in TaskIds :
        /\ tasks[t].pc = "done"
        /\ \E k \in DOMAIN Log(t) : IsHit(Log(t)[k])

\* C6: a cache get error is treated as a miss, a cache set error does not
\* stop the item either: the item goes on to the set, the extraction and a
\* publish attempt, and no task ends on a cache error.
C6_CacheFailOpen ==
    \A t \in TaskIds :
        /\ \A k \in DOMAIN Log(t) :
              LET e == Log(t)[k] IN
              /\ Failed(e, "get")
                    => Did(t, "set", e.i) \/ (tasks[t].idx = e.i /\ tasks[t].pc = "set")
              /\ ((Failed(e, "get") \/ Failed(e, "set")) /\ Past(t, e.i))
                    => Did(t, "set", e.i) /\ Did(t, "extract", e.i) /\ Did(t, "publish", e.i)
        /\ (tasks[t].pc = "failed" => Log(t)[Len(Log(t))].op = "fetch")

\* C6 case: both the get and the set of one item failed and the item was
\* offered to the queue.
C6_Witness ==
    \E t \in TaskIds : \E j, k \in DOMAIN Log(t) :
        /\ Failed(Log(t)[j], "get") /\ Failed(Log(t)[k], "set")
        /\ Log(t)[j].i = Log(t)[k].i
        /\ Did(t, "publish", Log(t)[j].i)

\* C7: when the extraction of an item fails, the item is still offered to
\* the queue with an empty article, and the task goes on with the feed's next
\* item.
C7_ExtractionFailureStillPublishes ==
    \A t \in TaskIds :
        /\ \A k \in DOMAIN Log(t) :
              LET e == Log(t)[k] IN
              (Failed(e, "extract") /\ Past(t, e.i)) =>
                  \E j \in DOMAIN Log(t) :
                      /\ j > k
                      /\ Log(t)[j].op = "publish" /\ Log(t)[j].i = e.i
                      /\ Log(t)[j].item.hash = e.item.hash
                      /\ Log(t)[j].item.article = ""
        /\ (tasks[t].pc = "done" => tasks[t].idx = Min(Len(tasks[t].items), items_count))
        /\ (tasks[t].pc = "failed" => Log(t)[Len(Log(t))].op = "fetch")

\* C7 case: an extraction failed and the task handled a later item of the
\* feed.
C7_Witness ==
    \E t \in TaskIds : \E k \in DOMAIN Log(t) :
        /\ Failed(Log(t)[k], "extract")
        /\ Did(t, "publish", Log(t)[k].i)
        /\ Did(t, "get", Log(t)[k].i + 1)

\* C8: an item is offered to the queue at most once per pass, also when the
\* publish fails; a failed publish puts nothing on the subject, and the task
\* goes on with the next item.
C8_PublishFireAndForget ==
    /\ \A t \in TaskIds :
        /\ \A k \in DOMAIN Log(t) : NumDid(t, "publish", Log(t)[k].i) <= 1
        /\ \A k \in DOMAIN Log(t) :
              Failed(Log(t)[k], "publish") =>
                  /\ Past(t, Log(t)[k].i)
                  /\ tasks[t].pc # "failed"
        /\ (tasks[t].pc = "done" => tasks[t].idx = Min(Len(tasks[t].items), items_count))
    /\ Len(inflight) = NumPublished

\* C8 case: a publish failed and the task handled the next item.
C8_Witness ==
    \E t \in TaskIds : \E k \in DOMAIN Log(t) :
        /\ Failed(Log(t)[k], "publish")
        /\ Did(t, "get", Log(t)[k].i + 1)

\* Every item task t found new (no present value in the cache) was offered
\* to the queue.
NewItemsPublished(t) ==
    t \in TaskIds /\ \A k \in DOMAIN Log(t) :
        (Log(t)[k].op = "get" /\ ~IsHit(Log(t)[k])) => Did(t, "publish", Log(t)[k].i)

\* C9: whatever happens to the other tasks of the pass, a task whose feed was
\* fetched and parsed runs to the end of its pass and offers each of its new
\* items to the queue.
C9_FeedFaultIsolation ==
    \A t \in 1..MaxTasks :
        (TaskPc(t) \notin {"unspawned", "fetch", "failed"})
            ~> (TaskPc(t) = "done" /\ NewItemsPublished(t))

\* C9 case: one feed of a pass failed and another feed of the same pass
\* published an item.
C9_Witness ==
    \E t, u \in TaskIds :
        /\ tasks[t].tick = tasks[u].tick
        /\ tasks[t].pc = "failed"
        /\ tasks[u].pc = "done"
        /\ \E k \in DOMAIN Log(u) : Log(u)[k].op = "publish" /\ Log(u)[k].r.ok

\* C10: a malformed payload does not end the consumer: run returns only when
\* the subscription stream has terminated.
C10_MalformedPayloadSkipped ==
    (\E k \in DOMAIN clog : ~clog[k].d.ok) =>
        \/ consumer.pc = "next"
        \/ consumer.result = "Message queue subscriber is broken"

\* C11: when the read or the insert the consumer makes for a message fails,
\* handling that message leaves the table as it was and the consumer is back
\* at the head of its loop, waiting for the next message.
C11_StorageFailureSkipsMessage ==
    [][(/\ Len(clog') = Len(clog) + 1
        /\ StorageFailed(clog'[Len(clog')]))
       => (/\ table' = table
           /\ consumer'.pc = "next"
           /\ consumer'.result = "running")]_vars

\* C11 case: a read failed for one message, an insert failed for another,
\* and a message delivered after a failure was stored.
C11_Witness ==
    \E i, j, k \in DOMAIN clog :
        /\ clog[i].read # NotCalled /\ ~clog[i].read.ok
        /\ clog[j].insert # NotCalled /\ ~clog[j].insert.ok
        /\ k > i /\ k > j
        /\ clog[k].insert.ok
        /\ \E r \in DOMAIN table : table[r].hash = clog[k].d.val.hash

\* The errors run can return: the one after the loop and the one `?`
\* propagates from from_slice.
RunErrors == {"Message queue subscriber is broken", "DeserializeError"}

\* C12: run has returned exactly when it holds a result, that result is
\* always an error, and when it returned without a payload that failed to
\* deserialize (the stream terminated) the error is the one that names the
\* broken subscriber.
C12_StreamEndReturnsErr ==
    /\ (consumer.pc = "returned") = (consumer.result # "running")
    /\ consumer.pc = "returned" =>
          /\ consumer.result \in RunErrors
          /\ (clog = <<>> \/ clog[Len(clog)].d.ok)
                => consumer.result = "Message queue subscriber is broken"

\* C12 case: the stream terminated after the consumer had stored a message.
C12_Witness ==
    /\ consumer.pc = "returned"
    /\ consumer.result = "Message queue subscriber is broken"
    /\ clog # <<>> /\ clog[Len(clog)].insert.ok
    /\ table # <<>>

\* C13: two entries that agree on title, author, link, description and raw
\* publication date get the same fingerprint, whatever their comments,
\* categories, fetch time and extracted article.
C13_FingerprintOfFiveFieldsOnly ==
    \A j, k \in Converted :
        FiveTuple(api[j].arg) = FiveTuple(api[k].arg)
            => api[j].res.val.hash = api[k].res.val.hash

\* C13 case: two items built from entries with one five-tuple differ in
\* article, fetched_timestamp, category and comments_url.
C13_Witness ==
    \E j, k \in Converted :
        /\ FiveTuple(api[j].arg) = FiveTuple(api[k].arg)
        /\ api[j].res.val.article # api[k].res.val.article
        /\ api[j].res.val.fetched_timestamp # api[k].res.val.fetched_timestamp
        /\ api[j].res.val.category # api[k].res.val.category
        /\ api[j].res.val.comments_url # api[k].res.val.comments_url
        /\ api[j].res.val.hash = api[k].res.val.hash

\* C14: two entries that differ in exactly one of title, author, link,
\* description and raw publication date get different fingerprints.
C14_SingleFieldChangesFingerprint ==
    \A j, k \in Converted :
        NumDiffer(api[j].arg, api[k].arg) = 1
            => api[j].res.val.hash # api[k].res.val.hash

\* C14 case: two converted entries differ in the description only, one of
\* them having none, and their fingerprints differ.
C14_Witness ==
    \E j, k \in Converted :
        /\ NumDiffer(api[j].arg, api[k].arg) = 1
        /\ api[j].arg.description = None
        /\ api[k].arg.description # None
        /\ api[j].res.val.hash # api[k].res.val.hash

\* C15: two entries whose five-tuples differ never get the same fingerprint.
C15_DistinctTuplesDistinctFingerprints ==
    \A j, k \in Converted :
        FiveTuple(api[j].arg) # FiveTuple(api[k].arg)
            => api[j].res.val.hash # api[k].res.val.hash

\* C16: no entry the item loop takes fails to convert: each one reaches the
\* dedup check, also when source fields are missing.
C16_MissingFieldNeverFails ==
    \A t \in TaskIds : \A k \in DOMAIN Log(t) : ~Failed(Log(t)[k], "convert")

\* C17: insert_bulk with an empty slice and read_bulk_by_ids with an empty
\* slice each return their "found zero" error and leave the table as it was.
C17_EmptyBatchRejected ==
    \A k \in DOMAIN api :
        api[k].arg = <<>> =>
            /\ api[k].op = "insert_bulk" => api[k].res = Err("Found zero items to insert")
            /\ api[k].op = "read_bulk_by_ids"
                  => api[k].res = Err("Found zero identifiers to read")
            /\ After(k) = api[k].before

\* C17 case: both calls were made with an empty slice.
C17_Witness ==
    \E j, k \in DOMAIN api :
        /\ api[j].op = "insert_bulk" /\ api[j].arg = <<>> /\ ~api[j].res.ok
        /\ api[k].op = "read_bulk_by_ids" /\ api[k].arg = <<>> /\ ~api[k].res.ok
        /\ table = api[1].before

\* C18: read_bulk_by_ids with a non-empty id list, the database answering,
\* succeeds and returns each stored row whose hash is in the list exactly
\* once and no other row, whether or not every id has a row; the table is
\* left as it was.
C18_ReadReturnsMatchingRows ==
    \A k \in DOMAIN api :
        (/\ api[k].op = "read_bulk_by_ids"
         /\ api[k].arg # <<>>
         /\ api[k].res # Err("DatabaseError")) =>
            LET rows == api[k].res.val
                before == api[k].before
            IN  /\ api[k].res.ok
                /\ \A i \in DOMAIN rows :
                      /\ rows[i] \in Range(before)
                      /\ rows[i].hash \in Range(api[k].arg)
                /\ \A i, j \in DOMAIN rows : rows[i] = rows[j] => i = j
                /\ \A r \in Range(before) :
                      r.hash \in Range(api[k].arg) => r \in Range(rows)
                /\ After(k) = before

\* C18 case: a read named a stored hash and an unknown one while another
\* row was stored; it returned the one row.
C18_Witness ==
    \E k \in DOMAIN api :
        /\ api[k].op = "read_bulk_by_ids" /\ api[k].res.ok
        /\ Len(api[k].res.val) = 1
        /\ \E i \in DOMAIN api[k].arg :
              \A r \in Range(api[k].before) : r.hash # api[k].arg[i]
        /\ \E r \in Range(api[k].before) : r.hash \notin Range(api[k].arg)

\* Every entry of the map has a key or a value that is blank.
AllBlank(field_map) ==
    \A k \in DOMAIN field_map :
        \/ k \in {<<>>, <<" ">>}
        \/ field_map[k] \in {<<>>, <<" ", " ">>}

\* C19: a call of filter_paginate whose map has no entry with a non-blank
\* key and a non-blank value (the empty map included) returns the "no valid
\* filters" error and sends no statement to the database.
C19_NoValidFiltersRejected ==
    \A k \in DOMAIN api :
        (/\ api[k].op = "filter_paginate"
         /\ api[k].res # NotCalled
         /\ AllBlank(api[k].arg.field_map)) =>
            /\ api[k].res = Err("No valid filters found")
            /\ api[k].sent = None
            /\ table = api[k].before

\* C19 case: a map with a blank-valued entry and a blank-keyed entry was
\* rejected while the table held rows.
C19_Witness ==
    \E k \in DOMAIN api :
        /\ api[k].op = "filter_paginate"
        /\ api[k].arg.field_map = (<<"k">> :> <<" ", " ">>) @@ (<<" ">> :> <<"u1">>)
        /\ api[k].res = Err("No valid filters found")
        /\ api[k].before # <<>>

\* The entries of the map with a non-blank key and a non-blank value.
NonBlank(field_map) ==
    {k \in DOMAIN field_map :
        /\ k \notin {<<>>, <<" ">>}
        /\ field_map[k] \notin {<<>>, <<" ", " ">>}}

\* C20: a call of filter_paginate with at least one non-blank entry is not
\* rejected for its filters and sends a statement that holds the non-blank
\* entries only; when it succeeds, every row it returns is a row of the table
\* that equals the given value on the field of every non-blank entry, no row
\* is returned twice, there are at most `limit` rows, and the table is as it
\* was.
C20_FilterIsAndOfEqualities ==
    \A c \in DOMAIN api :
        (/\ api[c].op = "filter_paginate"
         /\ api[c].res # NotCalled
         /\ ~AllBlank(api[c].arg.field_map)) =>
            LET field_map == api[c].arg.field_map
                rows == api[c].res.val
            IN  /\ api[c].res # Err("No valid filters found")
                /\ api[c].sent = Some(NonBlank(field_map))
                /\ table = api[c].before
                /\ api[c].res.ok =>
                      /\ \A i \in DOMAIN rows :
                            /\ rows[i] \in Range(api[c].before)
                            /\ \A k \in NonBlank(field_map) :
                                  rows[i][ColumnOf(k)] = field_map[k]
                      /\ \A i, j \in DOMAIN rows : rows[i] = rows[j] => i = j
                      /\ Len(rows) <= api[c].arg.limit

\* C20 case: a map with two non-blank entries and a blank one returned the
\* one row that passes both filters, and left out another row of the table.
C20_Witness ==
    \E c \in DOMAIN api :
        /\ api[c].op = "filter_paginate"
        /\ Cardinality(NonBlank(api[c].arg.field_map)) = 2
        /\ Cardinality(DOMAIN api[c].arg.field_map) = 3
        /\ api[c].arg.limit = 1
        /\ api[c].res = Ok(<<UserA>>)
        /\ UserB \in Range(api[c].before)

\* A finished call of extract_article on a page that was fetched.
Extracted == {c \in DOMAIN api : api[c].op = "extract_article"
                                  /\ api[c].res # NotCalled /\ api[c].via # "fetch"}

\* The positions of the page's elements with a tag (and a class, when given).
ElementsOf(doc, tag, class) ==
    {i \in DOMAIN doc : doc[i].tag = tag /\ (class = "" \/ doc[i].class = class)}

\* The first position of a non-empty set of positions.
First(S) == CHOOSE i \in S : \A j \in S : i <= j

\* C21: the text comes from the first `article` element when the page has
\* one; from the first `div.post-content` element when it has one and no
\* `article`; and from the scan of the divs only when it has neither.
C21_FirstMatchingStrategyWins ==
    \A c \in Extracted :
        LET doc == api[c].arg
            articles == ElementsOf(doc, "article", "")
            posts == ElementsOf(doc, "div", "post-content")
        IN  /\ articles # {} =>
                /\ api[c].via = "article"
                /\ api[c].res = Ok(join(text(doc, First(articles)), <<" ">>))
            /\ (articles = {} /\ posts # {}) =>
                /\ api[c].via = "div.post-content"
                /\ api[c].res = Ok(join(text(doc, First(posts)), <<" ">>))
            /\ (articles = {} /\ posts = {}) => api[c].via = "div"

\* C21 case: a page with a `div.post-content` element followed by an
\* `article` element gave the text of the article.
C21_Witness ==
    \E c \in Extracted :
        /\ api[c].arg[1].tag = "div" /\ api[c].arg[1].class = "post-content"
        /\ api[c].arg[3].tag = "article"
        /\ api[c].via = "article"
        /\ api[c].res = Ok(api[c].arg[4].text)
        /\ api[c].arg[2].text # api[c].arg[4].text

\* A text with no pipe character, no two white-space characters in a row
\* and no white space at either end.
IsClean(str) ==
    /\ \A i \in DOMAIN str : str[i] # "|"
    /\ \A i \in DOMAIN str : i > 1 => ~(str[i - 1] = " " /\ str[i] = " ")
    /\ str # <<>> => str[1] # " " /\ str[Len(str)] # " "

\* C22: whichever strategy produced it, the text extract_article returns has
\* no pipe character, no run of white space and no white space at its ends.
C22_ReturnedTextIsPostProcessed ==
    \A c \in Extracted : api[c].res.ok => IsClean(api[c].res.val)

\* C23: when the scan of the divs is used, extract_article fails exactly
\* when no div has text of trimmed length above zero, and otherwise returns
\* the post-processed text of a div whose trimmed text length is the greatest
\* of all divs and greater than that of every div before it.
C23_LargestDivWins ==
    \A c \in Extracted :
        api[c].via = "div" =>
            LET doc == api[c].arg
                divs == ElementsOf(doc, "div", "")
                TrimLen(i) == Len(str_trim(join(text(doc, i), <<>>)))
            IN  /\ api[c].res.ok = (\E i \in divs : TrimLen(i) > 0)
                /\ ~api[c].res.ok => api[c].res = Err("No <div> found.")
                /\ api[c].res.ok =>
                      \E i \in divs :
                          /\ \A j \in divs : TrimLen(j) <= TrimLen(i)
                          /\ \A j \in divs : j < i => TrimLen(j) < TrimLen(i)
                          /\ api[c].res.val = replace_tags(join(text(doc, i), <<>>))

\* C23 case: of two divs with texts of the same trimmed length, one beside
\* the other, the first gave the text.
C23_Witness ==
    \E c \in Extracted :
        /\ api[c].via = "div"
        /\ Len(api[c].arg) = 4
        /\ api[c].arg[1].tag = "div" /\ api[c].arg[3].tag = "div"
        /\ api[c].arg[3].parent = 0
        /\ api[c].arg[2].text = <<" ", "a", "|", "b">>
        /\ api[c].arg[4].text = <<"c", "d", "e", " ">>
        /\ api[c].res = Ok(<<"a", "b">>)

\* The number of items of a fetched feed that one pass goes over.
NumConsidered(t) ==
    IF Len(tasks[t].items) <= items_count THEN Len(tasks[t].items) ELSE items_count

\* C24: in one pass over one feed the poller considers the feed's items in
\* the feed's order and none beyond the first min(n, items_count): the feed
\* positions in the task's log never go down and never pass that number,
\* each item handled is the conversion of the entry at its position, a
\* finished pass has considered every one of those positions, and at most
\* items_count publishes were attempted.
C24_FirstItemsInFeedOrder ==
    \A t \in TaskIds :
        /\ \A k \in DOMAIN Log(t) :
              /\ Log(t)[k].i <= NumConsidered(t)
              /\ k > 1 => Log(t)[k - 1].i <= Log(t)[k].i
              /\ Log(t)[k].op \notin {"fetch", "convert"} =>
                    /\ Log(t)[k].i >= 1
                    /\ Log(t)[k].item.hash = Fingerprint(tasks[t].items[Log(t)[k].i])
        /\ tasks[t].pc = "done" =>
              \A i \in 1..NumConsidered(t) : Did(t, "convert", i) \/ Did(t, "get", i)
        /\ Cardinality({k \in DOMAIN Log(t) : Log(t)[k].op = "publish"}) <= items_count

\* C24 case: a pass over a feed of three items published the first and the
\* second, in that order, and ended.
C24_Witness ==
    \E t \in TaskIds :
        /\ tasks[t].pc = "done"
        /\ Len(tasks[t].items) > items_count
        /\ \E j, k \in DOMAIN Log(t) :
              /\ j < k
              /\ Log(t)[j].op = "publish" /\ Log(t)[j].i = 1
              /\ Log(t)[k].op = "publish" /\ Log(t)[k].i = items_count

\* Entry k of task t's log is the step op for the item at feed position i.
IsStep(t, k, op, i) == Log(t)[k].op = op /\ Log(t)[k].i = i

\* C25: for every item a task handles, the steps come in the order cache
\* get, cache set, extraction, publish: a set follows a get of that item that
\* was no hit, an extraction follows the set, a publish follows the
\* extraction; a set that succeeded has put the fingerprint into the cache,
\* and every step carries the fingerprint the get asked for.
C25_GetSetExtractPublish ==
    \A t \in TaskIds : \A k \in DOMAIN Log(t) :
        LET e == Log(t)[k] IN
        /\ e.op = "set" =>
              /\ k > 1 /\ IsStep(t, k - 1, "get", e.i)
              /\ ~IsHit(Log(t)[k - 1])
              /\ Log(t)[k - 1].item.hash = e.item.hash
              /\ e.r.ok => e.item.hash \in DOMAIN cache
        /\ e.op = "extract" =>
              /\ k > 1 /\ IsStep(t, k - 1, "set", e.i)
              /\ Log(t)[k - 1].item.hash = e.item.hash
        /\ e.op = "publish" =>
              /\ k > 3
              /\ IsStep(t, k - 1, "extract", e.i)
              /\ IsStep(t, k - 2, "set", e.i)
              /\ IsStep(t, k - 3, "get", e.i)
              /\ Log(t)[k - 3].item.hash = e.item.hash

\* C25 case: an item went through the four steps, its fingerprint being in
\* the cache when the extraction was made.
C25_Witness ==
    \E t \in TaskIds : \E k \in DOMAIN Log(t) :
        /\ k > 3
        /\ Log(t)[k].op = "publish" /\ Log(t)[k].r.ok
        /\ Log(t)[k - 1].op = "extract" /\ Log(t)[k - 1].r.ok
        /\ Log(t)[k - 2].op = "set" /\ Log(t)[k - 2].r.ok
        /\ Log(t)[k - 3].op = "get" /\ Log(t)[k - 3].r = Ok(None)
        /\ Log(t)[k].item.hash \in DOMAIN cache

\* Task t has not come to the end of process_url.
InFlight(t) == tasks[t].pc \notin {"done", "failed"}

\* C26: the loop of run spawns, pass after pass, one task per configured url
\* in the order of the configuration; a pass only adds tasks and leaves the
\* tasks in flight as they are; and the next pass can start whatever the
\* positions of the tasks spawned so far (run waits for none of them).
C26_PollerNeverWaits ==
    /\ [](\A t \in TaskIds :
            /\ tasks[t].url = rss_urls[((t - 1) % Len(rss_urls)) + 1]
            /\ tasks[t].tick = ((t - 1) \div Len(rss_urls)) + 1
            /\ tasks[t].tick <= ticks)
    /\ [](Len(tasks) < MaxInFlight => ENABLED PollerTick)
    /\ [][ticks' # ticks =>
            /\ ticks' = ticks + 1
            /\ Len(tasks') > Len(tasks)
            /\ SubSeq(tasks', 1, Len(tasks)) = tasks
            /\ \A t \in (DOMAIN tasks') \ (DOMAIN tasks) :
                  tasks'[t].pc = "fetch" /\ tasks'[t].tick = ticks']_vars

\* C26 case: a second pass started while both tasks of the first pass were
\* in flight, so that two tasks for one url are in flight together.
C26_Witness ==
    /\ Len(tasks) = MaxInFlight
    /\ \A t \in TaskIds : InFlight(t)
    /\ \E t, u \in TaskIds :
          /\ tasks[t].url = tasks[u].url
          /\ tasks[t].tick < tasks[u].tick
          /\ tasks[t].pc = "get" /\ tasks[u].pc = "fetch"

\* Entry k of task t's log is a publish the queue accepted.
Published(t, k) == Log(t)[k].op = "publish" /\ Log(t)[k].r.ok

\* C27: when two tasks have both published an item of one fingerprint, the
\* table never holds more than one row of that fingerprint.
C27_DuplicatePublishOneRow ==
    \A t, u \in TaskIds : \A j \in DOMAIN Log(t) : \A k \in DOMAIN Log(u) :
        (/\ t # u
         /\ Published(t, j) /\ Published(u, k)
         /\ Log(t)[j].item.hash = Log(u)[k].item.hash)
            => Len(RowsOf(table, Log(t)[j].item.hash)) <= 1

\* C27 case: two tasks of one pass both got a miss for one fingerprint with
\* the cache answering, both published the item, the consumer handled both
\* messages, and the table holds one row of the fingerprint.
C27_Witness ==
    \E t, u \in TaskIds : \E j \in DOMAIN Log(t) : \E k \in DOMAIN Log(u) :
        /\ t # u
        /\ tasks[t].tick = tasks[u].tick
        /\ Published(t, j) /\ Published(u, k)
        /\ Log(t)[j].item.hash = Log(u)[k].item.hash
        /\ \E g \in DOMAIN Log(t) :
              Log(t)[g].op = "get" /\ Log(t)[g].i = Log(t)[j].i /\ Log(t)[g].r = Ok(None)
        /\ \E g \in DOMAIN Log(u) :
              Log(u)[g].op = "get" /\ Log(u)[g].i = Log(u)[k].i /\ Log(u)[g].r = Ok(None)
        /\ Cardinality({c \in DOMAIN clog :
                          clog[c].d.ok /\ clog[c].d.val.hash = Log(t)[j].item.hash
                          /\ StorageAnswered(clog[c])}) = 2
        /\ Len(RowsOf(table, Log(t)[j].item.hash)) = 1

\* The storage calls for entry e's message have not all returned.
Pending(e) ==
    e.d.ok /\ (e.read = NotCalled \/ (e.read.ok /\ e.read.val = <<>> /\ e.insert = NotCalled))

\* The messages, in the order the stream yielded them, whose insert stored
\* fingerprint hash.
StoredBy(hash) ==
    {k \in DOMAIN clog : clog[k].d.ok /\ clog[k].d.val.hash = hash /\ clog[k].insert.ok}

Least(S) == CHOOSE k \in S : \A j \in S : k <= j

\* C28: the consumer takes messages one at a time in the order the stream
\* yields them: when it has taken a message, the storage calls of every
\* earlier message have returned, and the rows of the table stand in the
\* order in which the messages that first stored them were delivered.
C28_OneMessageAtATime ==
    /\ \A k \in DOMAIN clog : k < Len(clog) => ~Pending(clog[k])
    /\ (consumer.pc \in {"read", "insert"}) => (clog # <<>> /\ Pending(clog[Len(clog)]))
    /\ \A i \in DOMAIN table : StoredBy(table[i].hash) # {}
    /\ \A i, j \in DOMAIN table :
          i < j => Least(StoredBy(table[i].hash)) < Least(StoredBy(table[j].hash))

\* C28 case: three messages were handled; the insert of the first failed, so
\* its item was first stored by a later message and its row stands after the
\* row of the item delivered in between.
C28_Witness ==
    /\ Len(clog) = 3
    /\ consumer.pc = "next"
    /\ clog[1].d.ok /\ clog[1].insert # NotCalled /\ ~clog[1].insert.ok
    /\ clog[2].insert.ok /\ clog[3].insert.ok
    /\ clog[3].d.val.hash = clog[1].d.val.hash
    /\ Len(table) = 2
    /\ table[1].hash = clog[2].d.val.hash
    /\ table[2].hash = clog[3].d.val.hash

\* Task t looked item i up in the cache and the cache answered that the
\* fingerprint is absent.
Missed(t, i) ==
    /\ t \in TaskIds
    /\ \E k \in DOMAIN Log(t) :
          Log(t)[k].op = "get" /\ Log(t)[k].i = i /\ Log(t)[k].r = Ok(None)

\* The fingerprints of item i in task t's log.
HashesOf(t, i) == {Log(t)[k].item.hash : k \in {j \in DOMAIN Log(t) : Log(t)[j].i = i}}

\* A failure on the way of task t's item i to the table: its publish failed,
\* the stream ended, or storage failed for a message of its fingerprint.
FailureOnPath(t, i) ==
    \/ \E k \in DOMAIN Log(t) : Log(t)[k].i = i /\ Failed(Log(t)[k], "publish")
    \/ consumer.result = stream_ended
    \/ \E c \in DOMAIN clog :
          clog[c].d.ok /\ clog[c].d.val.hash \in HashesOf(t, i) /\ StorageFailed(clog[c])

\* C29: under fair scheduling, an item a task found absent from the cache is
\* eventually a row of the table with its fingerprint, unless its publish
\* failed, the stream ended or storage failed for its message.
C29_EventuallyStored ==
    \A t \in 1..MaxTasks : \A i \in 1..items_count :
        Missed(t, i) ~>
            /\ t \in TaskIds
            /\ \/ \E h \in HashesOf(t, i) : RowsOf(table, h) # <<>>
               \/ FailureOnPath(t, i)

\* C30: every fingerprint in the table was published to the subject by a
\* poller task before; the table changes only in a step in which the consumer
\* handles a message and its insert succeeds, and no step of the poller
\* changes it.
C30_DurableOnlyThroughConsumer ==
    /\ [](\A r \in DOMAIN table :
            \E t \in TaskIds : \E k \in DOMAIN Log(t) :
                Published(t, k) /\ Log(t)[k].item.hash = table[r].hash)
    /\ [][table' # table =>
            /\ Len(clog') = Len(clog) + 1
            /\ clog'[Len(clog')].insert.ok
            /\ clog'[Len(clog')].d.val.hash \in {inflight[m].fields.hash : m \in DOMAIN inflight}
            /\ UNCHANGED worker_vars]_vars
    /\ [][(ticks' # ticks \/ tasks' # tasks \/ cache' # cache) => table' = table]_vars

\* C30 case: every task has finished and every message was handled; one
\* published item is a row, and an item whose publish failed is none.
C30_Witness ==
    /\ tasks # <<>>
    /\ \A t \in TaskIds : tasks[t].pc = "done"
    /\ inflight = <<>>
    /\ table # <<>>
    /\ \E t \in TaskIds : \E k \in DOMAIN Log(t) :
          /\ Failed(Log(t)[k], "publish")
          /\ RowsOf(table, Log(t)[k].item.hash) = <<>>

\* The consumer saw entry e's fingerprint in the table: its insert stored
\* it, or its read found it.
SeenStored(e) ==
    e.d.ok /\ (e.insert.ok \/ (e.read.ok /\ e.read.val # <<>>))

\* C31: a fingerprint that was in the table at any time is in the table: a
\* fingerprint the consumer stored or found stored at any earlier step is
\* still the fingerprint of a row, whatever the poller and the consumer did
\* since.
C31_StoredFingerprintsOnlyGrow ==
    \A c \in DOMAIN clog :
        SeenStored(clog[c]) => RowsOf(table, clog[c].d.val.hash) # <<>>

\* C31 case: the table grew to two rows through later messages, and the
\* fingerprint stored first was found stored again after the second insert.
C31_Witness ==
    /\ Len(table) = 2
    /\ \E a, b, c \in DOMAIN clog :
        /\ a < b /\ b < c
        /\ clog[a].insert.ok /\ clog[b].insert.ok
        /\ clog[a].d.val.hash # clog[b].d.val.hash
        /\ clog[c].d.ok /\ clog[c].d.val.hash = clog[a].d.val.hash
        /\ clog[c].read.ok /\ clog[c].read.val # <<>>

\* The calls before call j that changed key k: the stores and deletes of k
\* that returned Ok.
WritesBefore(j, k) ==
    {i \in 1..(j - 1) : api[i].key = k /\ api[i].op \in {"store", "delete"} /\ api[i].res.ok}

Greatest(S) == CHOOSE i \in S : \A n \in S : n <= i

\* C32: a retrieve of key k returns the value of the last store of k, when
\* no delete of k came after that store, and None when the last call that
\* changed k is a delete or there is none; calls on other keys do not count.
C32_CacheClientSemantics ==
    \A j \in DOMAIN api :
        (api[j].op = "retrieve" /\ api[j].res.ok) =>
            LET W == WritesBefore(j, api[j].key) IN
            api[j].res.val =
                IF W = {} \/ api[Greatest(W)].op = "delete"
                THEN None
                ELSE Some(api[Greatest(W)].value)

\* C32 case: the empty string was stored under one key and retrieved, the key
\* was deleted with another key holding a value, and then one key gave None
\* and the other its value.
C32_Witness ==
    /\ Len(api) = MaxCacheCalls
    /\ \E a, b \in DOMAIN api :
        /\ a < b
        /\ api[a].op = "delete" /\ api[a].res.ok
        /\ WritesBefore(a, api[a].key) # {}
        /\ api[b].op = "retrieve" /\ api[b].key = api[a].key /\ api[b].res = Ok(None)
        /\ \E k \in CacheKeys \ {api[a].key} : retrieve(cache, k) # None

\* The entry at feed position i of task t's feed does not convert.
Unconvertible(t, i) == ~TryFromItem(tasks[t].items[i], tasks[t].tick).ok

\* C33: an entry that cannot be converted is skipped alone: the task makes no
\* cache call, extraction or publish for it, records the failed conversion
\* once and does not fail; and a pass that has ended has looked up in the
\* cache every later entry among the first items_count that converts.
C33_UnconvertibleEntrySkippedAlone ==
    \A t \in TaskIds : \A i \in 1..NumConsidered(t) :
        (Unconvertible(t, i) /\ tasks[t].idx >= i) =>
            /\ \A k \in DOMAIN Log(t) :
                  Log(t)[k].i = i => Failed(Log(t)[k], "convert")
            /\ NumDid(t, "convert", i) = 1
            /\ tasks[t].pc # "failed"
            /\ tasks[t].pc = "done" =>
                  \A j \in (i + 1)..NumConsidered(t) :
                      ~Unconvertible(t, j) => Did(t, "get", j)

\* C33 case: the first entry of a feed has no publication date and the
\* second converts; the pass has ended with the second item published.
C33_Witness ==
    \E t \in TaskIds :
        /\ tasks[t].pc = "done"
        /\ Unconvertible(t, 1)
        /\ Did(t, "convert", 1)
        /\ \E k \in DOMAIN Log(t) : Log(t)[k].i = 2 /\ Published(t, k)

\* The entries of task t's log of operation op for the item at position i.
StepsOf(t, op, i) == {k \in DOMAIN Log(t) : IsStep(t, k, op, i)}

\* C34: attaching the article changes the field article and nothing else:
\* the item a task publishes equals, in the hash and in every field but
\* article, the item it looked up in the cache and the item it set there;
\* its article is the extracted text, or what it was when the extraction
\* failed; and the message put on the subject carries that item.
C34_ExtractChangesOnlyArticle ==
    \A t \in TaskIds : \A i \in 1..NumConsidered(t) :
        \A g \in StepsOf(t, "get", i) : \A p \in StepsOf(t, "publish", i) :
            LET looked == Log(t)[g].item
                sent == Log(t)[p].item
            IN  /\ \A f \in (DOMAIN looked) \ {"article"} : sent[f] = looked[f]
                /\ DOMAIN sent = DOMAIN looked
                /\ \A c \in StepsOf(t, "set", i) : Log(t)[c].item.hash = sent.hash
                /\ \E x \in StepsOf(t, "extract", i) :
                      /\ Log(t)[x].item = looked
                      /\ sent.article = IF Log(t)[x].r.ok THEN Log(t)[x].r.val
                                        ELSE looked.article
                /\ Published(t, p) => \E m \in DOMAIN inflight : inflight[m] = to_vec(sent)

\* C34 case: one task published an item with the extracted text attached,
\* and a task published an item whose extraction failed.
C34_Witness ==
    /\ \E t \in TaskIds : \E i \in 1..NumConsidered(t) :
          /\ \E x \in StepsOf(t, "extract", i) : Log(t)[x].r.ok /\ Log(t)[x].r.val # ""
          /\ \E p \in StepsOf(t, "publish", i) : Published(t, p) /\ Log(t)[p].item.article # ""
    /\ \E t \in TaskIds : \E i \in 1..NumConsidered(t) :
          /\ \E x \in StepsOf(t, "extract", i) : ~Log(t)[x].r.ok
          /\ \E p \in StepsOf(t, "publish", i) : Published(t, p)

\* The entry task t's cache get appends to its log in this step.
GetEntry(t) == tasks'[t].log[Len(Log(t)) + 1]

\* C35: no step of the poller takes a key out of the cache or changes its
\* value, whatever the publish returned; and a cache get that succeeds for a
\* fingerprint that is in the cache is a hit: the task makes no set,
\* extraction or publish for that item and goes on to a later item or ends.
C35_SetFingerprintIsNeverRetried ==
    [][/\ \A k \in DOMAIN cache : k \in DOMAIN cache' /\ cache'[k] = cache[k]
       /\ \A t \in TaskIds :
            (/\ tasks[t].pc = "get"
             /\ tasks'[t] # tasks[t]
             /\ GetEntry(t).r.ok
             /\ tasks[t].item.hash \in DOMAIN cache)
                => /\ IsHit(GetEntry(t))
                   /\ tasks'[t].pc \in {"get", "done"}
                   /\ tasks'[t].idx > tasks[t].idx \/ tasks'[t].pc = "done"
                   /\ inflight' = inflight]_vars

\* C35 case: one task set an item's fingerprint and its publish failed; a
\* task that looked the item up later got a hit and skipped it; every task
\* has ended, the fingerprint is still in the cache and the item was never
\* put on the subject.
C35_Witness ==
    /\ tasks # <<>>
    /\ \A t \in TaskIds : tasks[t].pc = "done"
    /\ \E t, u \in TaskIds : \E s, p \in DOMAIN Log(t) : \E g \in DOMAIN Log(u) :
          /\ t # u
          /\ Log(t)[s].op = "set" /\ Log(t)[s].r.ok
          /\ Failed(Log(t)[p], "publish")
          /\ Log(t)[p].i = Log(t)[s].i
          /\ IsHit(Log(u)[g])
          /\ Log(u)[g].item.hash = Log(t)[p].item.hash
          /\ ~Did(u, "publish", Log(u)[g].i)
          /\ Log(t)[p].item.hash \in DOMAIN cache
          /\ \A m \in DOMAIN inflight : inflight[m].fields.hash # Log(t)[p].item.hash

\* The positions of task t's feed the task skipped: the entry did not
\* convert, or its fingerprint was found in the cache.
Skipped(t) ==
    {i \in 1..Len(tasks[t].items) :
        \E k \in DOMAIN Log(t) :
            Log(t)[k].i = i /\ (Failed(Log(t)[k], "convert") \/ IsHit(Log(t)[k]))}

\* The positions of task t's feed the task tried to publish.
Attempted(t) ==
    {i \in 1..Len(tasks[t].items) : Did(t, "publish", i)}

\* C36: the cap counts feed positions: no task makes any step for an entry
\* at a position beyond items_count, whether or not the entries before it
\* were skipped; a pass that has ended has skipped or tried to publish each
\* of its first items_count positions and no other, so every skip takes one
\* place of the cap.
C36_CapCountsFeedPositions ==
    \A t \in TaskIds :
        /\ tasks[t].idx <= items_count
        /\ \A i \in 1..Len(tasks[t].items) :
              i > items_count =>
                  /\ \A k \in DOMAIN Log(t) : Log(t)[k].i # i
                  /\ i \notin Skipped(t) \cup Attempted(t)
        /\ Skipped(t) \cap Attempted(t) = {}
        /\ tasks[t].pc = "done" =>
              /\ Skipped(t) \cup Attempted(t) = 1..NumConsidered(t)
              /\ Cardinality(Attempted(t)) = NumConsidered(t) - Cardinality(Skipped(t))

\* C36 case: a pass over a feed of three entries has ended; its first entry
\* did not convert and its second was found in the cache, so it published
\* nothing, and the third entry, which converts and is not in the cache, was
\* never looked at.
C36_Witness ==
    \E t \in TaskIds :
        /\ tasks[t].pc = "done"
        /\ Len(tasks[t].items) > items_count
        /\ Skipped(t) = 1..items_count
        /\ \E j, k \in DOMAIN Log(t) :
              Failed(Log(t)[j], "convert") /\ IsHit(Log(t)[k])
        /\ Attempted(t) = {}
        /\ LET next == TryFromItem(tasks[t].items[items_count + 1], tasks[t].tick) IN
              next.ok /\ next.val.hash \notin DOMAIN cache

\* The keys of a batch.
KeysOf(entities) == {entities[i][KeyColumn] : i \in DOMAIN entities}

\* C37: insert_bulk is all-or-nothing: a call that returns an error leaves
\* every row of the table as it was, and a call that succeeds on a batch of
\* pairwise distinct keys returns the keys of the batch, one for each entity,
\* and leaves one row for each of them.
C37_InsertBulkAllOrNothing ==
    \A k \in DOMAIN api :
        api[k].op = "insert_bulk" =>
            /\ ~api[k].res.ok => After(k) = api[k].before
            /\ (api[k].res.ok /\ DistinctKeys(api[k].arg)) =>
                  /\ Len(api[k].res.val) = Len(api[k].arg)
                  /\ Range(api[k].res.val) = KeysOf(api[k].arg)
                  /\ \A h \in KeysOf(api[k].arg) : Len(RowsOf(After(k), h)) = 1
            /\ api[k].res.ok => api[k].arg # <<>> /\ DistinctKeys(api[k].arg)

\* C37 case: a batch of two keys was stored, and then a batch that the
\* statement rejects (one key twice, with different articles) returned an
\* error and left both rows as they were.
C37_Witness ==
    /\ Len(api) = 2
    /\ api[1].op = "insert_bulk" /\ api[1].res.ok /\ Len(api[1].arg) = 2
    /\ api[2].op = "insert_bulk" /\ ~api[2].res.ok /\ Len(api[2].arg) = 2
    /\ api[2].arg[1].article # api[1].arg[1].article
    /\ api[2].arg[1].hash = api[1].arg[1].hash
    /\ Len(table) = 2
    /\ table = api[2].before

\* b is a + 1 as a number, with a and b of 32 bits.
IsSuccessor(a, b) ==
    \/ b.hi = a.hi /\ b.lo = a.lo + 1
    \/ a.lo = Limb - 1 /\ b.lo = 0 /\ b.hi = a.hi + 1

\* The increments among the first k calls of the history.
Increments(k) == {j \in 1..k : api[j].op = "increment_retry"}

\* C38: a new message has retry_count 0 and max_retries 3; increment_retry
\* returns with retry_count one more than before and every other field as it
\* was; should_retry is retry_count < max_retries; and on a new message
\* should_retry after k increments is k < 3.
C38_RetryCounting ==
    \A k \in DOMAIN api :
        /\ api[k].op = "new" =>
              api[k].msg.retry_count = U32(0, 0) /\ api[k].msg.max_retries = U32(0, 3)
        /\ api[k].op = "increment_retry" =>
              /\ api[k].res.ok
              /\ IsSuccessor(api[k - 1].msg.retry_count, api[k].msg.retry_count)
              /\ \A f \in (DOMAIN api[k].msg) \ {"retry_count"} :
                    api[k].msg[f] = api[k - 1].msg[f]
        /\ api[k].op = "should_retry" =>
              /\ api[k].res.val = u32_lt(api[k].msg.retry_count, api[k].msg.max_retries)
              /\ api[k].msg = api[k - 1].msg
              /\ api[1].op = "new" => api[k].res.val = (Cardinality(Increments(k)) < 3)

\* C38, amended: as C38_RetryCounting, but increment_retry adds one only
\* below the largest u32; at the largest u32 it either panics and leaves the
\* message as it was, or returns with retry_count 0 and every other field as
\* it was.
C38_RetryCountingBelowMax ==
    \A k \in DOMAIN api :
        /\ api[k].op = "new" =>
              api[k].msg.retry_count = U32(0, 0) /\ api[k].msg.max_retries = U32(0, 3)
        /\ api[k].op = "increment_retry" =>
              /\ \A f \in (DOMAIN api[k].msg) \ {"retry_count"} :
                    api[k].msg[f] = api[k - 1].msg[f]
              /\ IF api[k - 1].msg.retry_count # U32Max
                 THEN /\ api[k].res.ok
                      /\ IsSuccessor(api[k - 1].msg.retry_count, api[k].msg.retry_count)
                 ELSE \/ ~api[k].res.ok /\ api[k].msg = api[k - 1].msg
                      \/ api[k].res.ok /\ api[k].msg.retry_count = U32(0, 0)
        /\ api[k].op = "should_retry" =>
              /\ api[k].res.val = u32_lt(api[k].msg.retry_count, api[k].msg.max_retries)
              /\ api[k].msg = api[k - 1].msg
              /\ api[1].op = "new" => api[k].res.val = (Cardinality(Increments(k)) < 3)

\* C38 case: a new message was incremented twice and should_retry held, and
\* after the third increment it did not.
C38_Witness ==
    /\ Len(api) = 6
    /\ api[1].op = "new"
    /\ api[2].op = "increment_retry" /\ api[3].op = "increment_retry"
    /\ api[4].op = "should_retry" /\ api[4].res.val = TRUE
    /\ api[5].op = "increment_retry"
    /\ api[6].op = "should_retry" /\ api[6].res.val = FALSE
    /\ api[6].msg.retry_count = api[6].msg.max_retries

====
